---- MODULE Spec2Model ----
(***************************************************************************)
(* A model of ferricalc's expression pipeline: Scanner (scanner.rs),       *)
(* Parser (interpreter/parser.rs), Env (interpreter/env.rs), the built-in  *)
(* math library (interpreter/math.rs), the Interpreter (interpreter.rs)    *)
(* and the host's commit / preview passes (main.rs).                       *)
(*                                                                         *)
(* A text is a sequence of characters, each character a string naming it.  *)
(* A name (identifier) is the sequence of its characters.                  *)
(* A number is an exact rational <<numerator, denominator>>; the value     *)
(* OUT stands for every value the model does not track (see Norm).         *)
(***************************************************************************)
EXTENDS Integers, Sequences, FiniteSets, TLC

VARIABLES
    input,      \* App.input: the text of the statement being processed
    tokens,     \* App.tokens: the last result of scan_tokens (or PANIC)
    parsed,     \* the last result of Parser::parse
    env,        \* Interpreter.env.members: name -> EnvMember
    scope,      \* Interpreter.scope: Option<HashMap<String, Float>>
    last_ans,   \* Interpreter.last_ans
    save_assignments, \* Interpreter.save_assignments
    history,    \* App.history
    pc,         \* position of the process in the pass being modelled
    call,       \* the last operation applied: its kind and its arguments
    res,        \* what the last operation returned
    pre,        \* the env and last_ans as they were when the last operation began
    cursor_position, \* App.cursor_position
    history_index,   \* App.history_index
    completion,      \* App.completion: Option<Completion>
    events           \* the number of key events run_app has read

vars == <<input, tokens, parsed, env, scope, last_ans, save_assignments,
          history, pc, call, res, pre, cursor_position, history_index, completion,
          events>>

-----------------------------------------------------------------------------
(* Bounds of the model *)

\* Numbers whose numerator or denominator exceeds NumBound are not tracked.
NumBound == 10000
\* Longest enumerated text of the pipeline specification.
MaxLen == 4
\* Longest enumerated text of the scanner specification.
MaxScanLen == 3
\* Number of statements a session commits.
MaxSteps == 3

-----------------------------------------------------------------------------
(* Characters and UTF-8 text *)

Digits == {"0", "1", "2", "3", "4", "5", "6", "7", "8", "9"}

Letters ==
    {"a", "b", "c", "d", "e", "f", "g", "h", "i", "j", "k", "l", "m",
     "n", "o", "p", "q", "r", "s", "t", "u", "v", "w", "x", "y", "z",
     "A", "B", "C", "D", "E", "F", "G", "H", "I", "J", "K", "L", "M",
     "N", "O", "P", "Q", "R", "S", "T", "U", "V", "W", "X", "Y", "Z"}

\* A character outside ASCII: U+00E9 takes two bytes in UTF-8.
NonAscii == {"U+00E9"}

Utf8Len(c) == IF c \in NonAscii THEN 2 ELSE 1

\* The marker of a byte that continues a multi-byte character.
CONT == "<cont>"
PANIC == "<panic>"
NONE == "<none>"

\* The bytes of a text: the first byte of a character carries the character.
RECURSIVE Bytes(_)
Bytes(text) ==
    IF text = <<>> THEN <<>>
    ELSE LET c == Head(text)
         IN  (IF Utf8Len(c) = 2 THEN <<c, CONT>> ELSE <<c>>) \o Bytes(Tail(text))

\* &src[i..].chars().next(): the index must lie within the string and on a
\* character boundary, or the slice panics.
CharFrom(src, i) ==
    IF i > Len(src) THEN PANIC
    ELSE IF i = Len(src) THEN NONE
    ELSE IF src[i + 1] = CONT THEN PANIC
    ELSE src[i + 1]

-----------------------------------------------------------------------------
(* Numbers: rug::Float at PREC_BITS bits. A Float is a binary fraction, so
   the values tracked are the rationals n/d with d a power of two, which
   the code holds exactly; OUT stands for every other value (a rounded
   result, a value beyond the window, an infinity, a NaN), and arithmetic
   on an untracked value is untracked. *)

OUT == <<0, 0>>

Abs(n) == IF n < 0 THEN -n ELSE n

RECURSIVE GCD(_, _)
GCD(a, b) == IF b = 0 THEN a ELSE GCD(b, a % b)

RECURSIVE IsPow2(_)
IsPow2(d) == d = 1 \/ (d > 1 /\ d % 2 = 0 /\ IsPow2(d \div 2))

\* The Float nearest to n/d: n/d itself in lowest terms when d is then a
\* power of two (the result is exact), OUT when the result is rounded or
\* beyond the tracked window.
Norm(n, d) ==
    IF d = 0 THEN OUT
    ELSE LET s == IF d < 0 THEN -1 ELSE 1
             g == GCD(Abs(n), Abs(d))
             nn == (s * n) \div g
             dd == (s * d) \div g
         IN  IF Abs(nn) > NumBound \/ dd > NumBound \/ ~IsPow2(dd) THEN OUT
             ELSE <<nn, dd>>

Num(n) == Norm(n, 1)
IsOut(v) == v[2] = 0

Add(a, b) == IF IsOut(a) \/ IsOut(b) THEN OUT
             ELSE Norm(a[1] * b[2] + b[1] * a[2], a[2] * b[2])
Neg(a) == IF IsOut(a) THEN OUT ELSE <<-a[1], a[2]>>
Sub(a, b) == Add(a, Neg(b))
Mul(a, b) == IF IsOut(a) \/ IsOut(b) THEN OUT
             ELSE Norm(a[1] * b[1], a[2] * b[2])
\* Division by zero gives an infinity or NaN: not tracked.
Div(a, b) == IF IsOut(a) \/ IsOut(b) \/ b[1] = 0 THEN OUT
             ELSE Norm(a[1] * b[2], a[2] * b[1])

\* acc * a^k for an integer k >= 0, by repeated multiplication; the bases
\* 0, 1 and -1 are settled at once, every other base leaves the window
\* within a few steps.
RECURSIVE PowAcc(_, _, _)
PowAcc(a, k, acc) ==
    IF k = 0 \/ IsOut(acc) THEN acc
    ELSE PowAcc(a, k - 1, Mul(acc, a))

PowNat(a, k) ==
    IF k = 0 THEN Num(1)
    ELSE IF IsOut(a) THEN OUT
    ELSE IF a = Num(0) THEN Num(0)
    ELSE IF a = Num(1) THEN Num(1)
    ELSE IF a = Num(-1) THEN (IF k % 2 = 0 THEN Num(1) ELSE Num(-1))
    ELSE PowAcc(a, k, Num(1))

\* Float::pow. x^0 is 1 for every x and 1^y is 1 for every y; a non-integer
\* exponent gives an untracked value; a zero base with a negative exponent
\* gives an infinity.
Pow(a, b) ==
    IF ~IsOut(b) /\ b[1] = 0 THEN Num(1)
    ELSE IF a = Num(1) THEN Num(1)
    ELSE IF IsOut(a) \/ IsOut(b) THEN OUT
    ELSE IF b[2] # 1 THEN OUT
    ELSE IF b[1] >= 0 THEN PowNat(a, b[1])
    ELSE IF a[1] = 0 THEN OUT
    ELSE PowNat(Norm(a[2], a[1]), -b[1])

Less(a, b) == a[1] * b[2] < b[1] * a[2]

-----------------------------------------------------------------------------
(* Scanner (scanner.rs) *)

\* A token; literal is <<>> for None and <<v>> for Some(Literal::Number(v)).
Token(kind, literal, start, end) ==
    [kind |-> kind, literal |-> literal, start |-> start, end |-> end]

DigitValue(c) ==
    CASE c = "0" -> 0 [] c = "1" -> 1 [] c = "2" -> 2 [] c = "3" -> 3
      [] c = "4" -> 4 [] c = "5" -> 5 [] c = "6" -> 6 [] c = "7" -> 7
      [] c = "8" -> 8 [] c = "9" -> 9

RECURSIVE DigitsValue(_, _)
DigitsValue(ds, acc) ==
    IF ds = <<>> THEN acc ELSE DigitsValue(Tail(ds), acc * 10 + DigitValue(Head(ds)))

RECURSIVE Pow10(_)
Pow10(k) == IF k = 0 THEN 1 ELSE 10 * Pow10(k - 1)

\* Float::parse of digits with an optional fraction, completed at PREC_BITS:
\* the decimal it denotes when that is a binary fraction, else a rounded
\* value. More than 8 digits are beyond the tracked window.
ParseNumber(str) ==
    LET dot == {i \in 1..Len(str) : str[i] = "."}
        ds == SelectSeq(str, LAMBDA c : c # ".")
        frac == IF dot = {} THEN 0 ELSE Len(str) - (CHOOSE i \in dot : TRUE)
    IN  IF Len(ds) > 8 THEN OUT ELSE Norm(DigitsValue(ds, 0), Pow10(frac))

\* Scanner::advance_while from byte `cur` over the characters of `set`:
\* the new current, or -1 when peek panics.
RECURSIVE AdvanceWhile(_, _, _)
AdvanceWhile(src, cur, set) ==
    LET c == CharFrom(src, cur)
    IN  IF c = PANIC THEN -1
        ELSE IF c \in set THEN AdvanceWhile(src, cur + 1, set)
        ELSE cur

\* The scanner's state: panic is set once an operation has panicked.
ScanState(panic, current, toks) ==
    [panic |-> panic, current |-> current, tokens |-> toks]

\* Scanner::number, entered after the first digit has been consumed.
ScanNumber(src, start, cur, toks) ==
    LET c1 == AdvanceWhile(src, cur, Digits)
    IN  IF c1 = -1 THEN ScanState(TRUE, cur, toks)
        ELSE LET nxt == IF CharFrom(src, c1) = "." THEN CharFrom(src, c1 + 1) ELSE NONE
             IN  IF nxt = PANIC THEN ScanState(TRUE, c1, toks)
                 ELSE LET c2 == IF nxt \in Digits
                                THEN AdvanceWhile(src, c1 + 1, Digits)
                                ELSE c1
                      IN  IF c2 = -1 THEN ScanState(TRUE, c1, toks)
                          ELSE ScanState(FALSE, c2,
                                   Append(toks,
                                       Token("Number",
                                             <<ParseNumber(SubSeq(src, start + 1, c2))>>,
                                             start, c2)))

\* Scanner::literal, entered after the first letter has been consumed.
ScanLiteral(src, start, cur, toks) ==
    LET c1 == AdvanceWhile(src, cur, Digits \cup Letters)
    IN  IF c1 = -1 THEN ScanState(TRUE, cur, toks)
        ELSE ScanState(FALSE, c1, Append(toks, Token("Indentifier", <<>>, start, c1)))

\* The kind of the token a single character makes; "" for a character that
\* starts a longer token or makes none.
CharKind(c) ==
    CASE c = "(" -> "LParen" [] c = ")" -> "RParen" [] c = "," -> "Comma"
      [] c = "." -> "Dot" [] c = "-" -> "Minus" [] c = "+" -> "Plus"
      [] c = "/" -> "Slash" [] c = "*" -> "Star" [] c = "=" -> "Equal"
      [] c = "^" -> "Exp"
      [] c \in Digits \cup Letters \cup {" "} -> ""
      [] OTHER -> "Unkown"

\* Scanner::scan_token with self.start = start = self.current.
ScanToken(src, start, toks) ==
    LET c == CharFrom(src, start)   \* advance(): the character, then current += 1
        cur == start + 1
    IN  IF c \in {PANIC, NONE} THEN ScanState(TRUE, start, toks)
        ELSE IF c \in Digits THEN ScanNumber(src, start, cur, toks)
        ELSE IF c \in Letters THEN ScanLiteral(src, start, cur, toks)
        ELSE IF c = " " THEN ScanState(FALSE, cur, toks)
        ELSE ScanState(FALSE, cur, Append(toks, Token(CharKind(c), <<>>, start, cur)))

\* The loop of Scanner::scan_tokens.
RECURSIVE ScanLoop(_, _, _)
ScanLoop(src, cur, toks) ==
    IF cur >= Len(src)
    THEN ScanState(FALSE, cur, Append(toks, Token("Eof", <<>>, cur, cur)))
    ELSE LET st == ScanToken(src, cur, toks)
         IN  IF st.panic THEN st ELSE ScanLoop(src, st.current, st.tokens)

\* Scanner::new(text).scan_tokens(): [panic, tokens].
ScanTokens(text) ==
    LET st == ScanLoop(Bytes(text), 0, <<>>)
    IN  [panic |-> st.panic, tokens |-> IF st.panic THEN <<>> ELSE st.tokens]

-----------------------------------------------------------------------------
(* AST (interpreter/ast.rs) *)

\* Expressions and statements are tagged tuples. An operator token is kept
\* as its kind, the one field of it the Interpreter reads.
Literal(v) == <<"Literal", v>>
Binary(lhs, op, rhs) == <<"Binary", lhs, op, rhs>>
Unary(op, rhs) == <<"Unary", op, rhs>>
Grouping(e) == <<"Grouping", e>>
Var(name) == <<"Var", name>>
FnCall(name, arguments) == <<"FnCall", name, arguments>>
VarAssign(name, value) == <<"VarAssign", name, value>>
FnAssign(name, arguments, expr) == <<"FnAssign", name, arguments, expr>>
ExprStmt(e) == <<"Expr", e>>

-----------------------------------------------------------------------------
(* Parser (interpreter/parser.rs) *)

\* What a parsing function returns: st is "ok" (node, and the parser's
\* current after it), "err" (msg) or "panic".
PR(st, node, cur, msg) == [st |-> st, node |-> node, cur |-> cur, msg |-> msg]
POk(node, cur) == PR("ok", node, cur, "")
PErr(cur, msg) == PR("err", <<>>, cur, msg)
PPanic(cur) == PR("panic", <<>>, cur, "")

\* Parser::peek, Parser::is_at_end and Parser::check; current is 0-based.
Peek(toks, cur) == toks[cur + 1]
IsAtEnd(toks, cur) == Peek(toks, cur).kind = "Eof"
Check(toks, cur, kind) == ~IsAtEnd(toks, cur) /\ Peek(toks, cur).kind = kind
\* Parser::match_tokens: whether one of the kinds is next; the caller then
\* continues from cur + 1 (Parser::advance).
MatchTokens(toks, cur, kinds) == \E k \in kinds : Check(toks, cur, k)

\* The characters a sequence of whole characters' bytes holds.
Chars(bytes) == SelectSeq(bytes, LAMBDA b : b # CONT)

\* &source[span]: the characters of the slice, or <<PANIC>> when the span
\* is not within the source or not on character boundaries.
SourceSlice(src, start, end) ==
    IF start > end \/ end > Len(src) THEN <<PANIC>>
    ELSE IF (start < Len(src) /\ src[start + 1] = CONT)
            \/ (end < Len(src) /\ src[end + 1] = CONT) THEN <<PANIC>>
    ELSE Chars(SubSeq(src, start + 1, end))

RECURSIVE Expression(_, _, _), Term(_, _, _), TermLoop(_, _, _, _),
          Factor(_, _, _), FactorLoop(_, _, _, _), UnaryP(_, _, _),
          ExpP(_, _, _), ExpLoop(_, _, _, _), Primary(_, _, _),
          ArgLoop(_, _, _, _)

\* Each function below that parses a sub-expression and goes on with its
\* result is written as two definitions: the call, and what follows it
\* (the code after `?`), which takes the call's result as a parameter.

\* Parser::primary, the call form: after an argument, ',' loops and anything
\* else leaves the loop.
ArgNext(toks, src, arguments, a) ==
    IF a.st # "ok" THEN a
    ELSE IF MatchTokens(toks, a.cur, {"Comma"})
    THEN ArgLoop(toks, src, Append(arguments, a.node), a.cur + 1)
    ELSE POk(Append(arguments, a.node), a.cur)

\* A loop that takes ')' right after '(' as an empty argument list.
ArgLoopOrEmpty(toks, src, arguments, cur) ==
    IF arguments = <<>> /\ Check(toks, cur, "RParen") THEN POk(<<>>, cur)
    ELSE ArgNext(toks, src, arguments, Expression(toks, src, cur))

\* Parser::primary, the call form: the loop, entered after '(' or ','.
ArgLoop(toks, src, arguments, cur) ==
    ArgNext(toks, src, arguments, Expression(toks, src, cur))

\* Parser::primary, the call form: consume(RParen) after the arguments.
CallClose(toks, name, as) ==
    IF as.st # "ok" THEN as
    ELSE IF Check(toks, as.cur, "RParen") THEN POk(FnCall(name, as.node), as.cur + 1)
    ELSE PErr(as.cur, "Expect ')' after function call.")

\* Parser::primary, the grouping: consume(RParen) after the expression.
GroupClose(toks, e) ==
    IF e.st # "ok" THEN e
    ELSE IF Check(toks, e.cur, "RParen") THEN POk(Grouping(e.node), e.cur + 1)
    ELSE PErr(e.cur, "Expect ')' after expression.")

\* Parser::primary, an identifier: a call when '(' follows, else a Var.
PrimaryIdent(toks, src, cur, name) ==
    IF name = <<PANIC>> THEN PPanic(cur + 1)
    ELSE IF MatchTokens(toks, cur + 1, {"LParen"})
    THEN CallClose(toks, name, ArgLoop(toks, src, <<>>, cur + 2))
    ELSE POk(Var(name), cur + 1)

\* Parser::primary.
Primary(toks, src, cur) ==
    IF MatchTokens(toks, cur, {"Number"})
    THEN IF Peek(toks, cur).literal = <<>> THEN PPanic(cur + 1)
         ELSE POk(Literal(Peek(toks, cur).literal[1]), cur + 1)
    ELSE IF MatchTokens(toks, cur, {"LParen"})
    THEN GroupClose(toks, Expression(toks, src, cur + 1))
    ELSE IF MatchTokens(toks, cur, {"Indentifier"})
    THEN PrimaryIdent(toks, src, cur,
                      SourceSlice(src, Peek(toks, cur).start, Peek(toks, cur).end))
    ELSE PErr(cur, "Expected expression")

\* Parser::exp: the fold of one right operand into the expression.
ExpFold(toks, src, expr, r) ==
    IF r.st # "ok" THEN r ELSE ExpLoop(toks, src, Binary(expr, "Exp", r.node), r.cur)

\* A variant of the loop of Parser::exp whose right operand is a primary,
\* which would fold '^' to the left.
ExpLoopPrimary(toks, src, expr, cur) ==
    IF MatchTokens(toks, cur, {"Exp"})
    THEN ExpFold(toks, src, expr, Primary(toks, src, cur + 1))
    ELSE POk(expr, cur)

\* Parser::exp: the loop; the right operand of '^' is parsed by unary.
ExpLoop(toks, src, expr, cur) ==
    IF MatchTokens(toks, cur, {"Exp"})
    THEN ExpFold(toks, src, expr, UnaryP(toks, src, cur + 1))
    ELSE POk(expr, cur)

ExpFirst(toks, src, l) ==
    IF l.st # "ok" THEN l ELSE ExpLoop(toks, src, l.node, l.cur)

\* Parser::exp.
ExpP(toks, src, cur) == ExpFirst(toks, src, Primary(toks, src, cur))

UnaryWrap(op, r) ==
    IF r.st # "ok" THEN r ELSE POk(Unary(op, r.node), r.cur)

\* Parser::unary.
UnaryP(toks, src, cur) ==
    IF MatchTokens(toks, cur, {"Minus", "Plus"})
    THEN UnaryWrap(Peek(toks, cur).kind, UnaryP(toks, src, cur + 1))
    ELSE ExpP(toks, src, cur)

\* Parser::factor: the fold of one right operand into the expression.
FactorFold(toks, src, expr, op, r) ==
    IF r.st # "ok" THEN r ELSE FactorLoop(toks, src, Binary(expr, op, r.node), r.cur)

\* Parser::factor: the loop.
FactorLoop(toks, src, expr, cur) ==
    IF MatchTokens(toks, cur, {"Slash", "Star"})
    THEN FactorFold(toks, src, expr, Peek(toks, cur).kind, UnaryP(toks, src, cur + 1))
    ELSE POk(expr, cur)

FactorFirst(toks, src, l) ==
    IF l.st # "ok" THEN l ELSE FactorLoop(toks, src, l.node, l.cur)

\* Parser::factor.
Factor(toks, src, cur) == FactorFirst(toks, src, UnaryP(toks, src, cur))

\* Parser::term: the fold of one right operand into the expression.
TermFold(toks, src, expr, op, r) ==
    IF r.st # "ok" THEN r ELSE TermLoop(toks, src, Binary(expr, op, r.node), r.cur)

\* A variant of the loop of Parser::term whose right operand is parsed by
\* unary, which would let '+' take the left operand of a following '*'.
TermLoopUnary(toks, src, expr, cur) ==
    IF MatchTokens(toks, cur, {"Plus", "Minus"})
    THEN TermFold(toks, src, expr, Peek(toks, cur).kind, UnaryP(toks, src, cur + 1))
    ELSE POk(expr, cur)

\* Parser::term: the loop.
TermLoop(toks, src, expr, cur) ==
    IF MatchTokens(toks, cur, {"Plus", "Minus"})
    THEN TermFold(toks, src, expr, Peek(toks, cur).kind, Factor(toks, src, cur + 1))
    ELSE POk(expr, cur)

TermFirst(toks, src, l) ==
    IF l.st # "ok" THEN l ELSE TermLoop(toks, src, l.node, l.cur)

\* Parser::term.
Term(toks, src, cur) == TermFirst(toks, src, Factor(toks, src, cur))

\* Parser::expression.
Expression(toks, src, cur) == Term(toks, src, cur)

\* The parameter names of a call form used as an assignment target.
IsVar(e) == e[1] = "Var"
ParamNames(arguments) == [i \in 1..Len(arguments) |-> arguments[i][2]]

\* Parser::stmt: the assignment, once its value has been parsed.
StmtAssign(target, v) ==
    IF v.st # "ok" THEN v
    ELSE IF target[1] = "Var" THEN POk(VarAssign(target[2], v.node), v.cur)
    ELSE IF target[1] = "FnCall"
    THEN IF \A i \in 1..Len(target[3]) : IsVar(target[3][i])
         THEN POk(FnAssign(target[2], ParamNames(target[3]), v.node), v.cur)
         ELSE PErr(v.cur, "Invalid function args")
    ELSE PErr(v.cur, "Expected function or variable assignment")

StmtFirst(toks, src, e) ==
    IF e.st # "ok" THEN e
    ELSE IF MatchTokens(toks, e.cur, {"Equal"})
    THEN StmtAssign(e.node, Expression(toks, src, e.cur + 1))
    ELSE POk(ExprStmt(e.node), e.cur)

\* Parser::stmt.
StmtP(toks, src, cur) == StmtFirst(toks, src, Expression(toks, src, cur))

\* A variant of the end of Parser::parse that accepts trailing tokens.
ParseEndAnywhere(toks, r) == r

\* Parser::parse: the statement must end at Eof.
ParseEnd(toks, r) ==
    IF r.st # "ok" THEN r
    ELSE IF ~IsAtEnd(toks, r.cur) THEN PErr(r.cur, "Expected EOF")
    ELSE r

\* Parser::new(tokens, source).parse(). Indexing an empty token vector
\* panics.
Parse(toks, text) ==
    IF toks = <<>> THEN PPanic(0) ELSE ParseEnd(toks, StmtP(toks, Bytes(text), 0))

-----------------------------------------------------------------------------
(* Env (interpreter/env.rs) *)

\* An EnvMember is <<"Var", v>> or <<"Fn", f>>, with f a Func:
\* <<"BuiltinFn", name>> or <<"UserFn", arguments, expr>>.
\* An Option is <<>> (None) or <<x>> (Some(x)).
MVar(v) == <<"Var", v>>
MFn(f) == <<"Fn", f>>
BuiltinFn(name) == <<"BuiltinFn", name>>
UserFn(arguments, expr) == <<"UserFn", arguments, expr>>

\* Env::new.
EnvNew == <<>>

\* BTreeMap::insert.
Insert(members, k, m) ==
    [q \in (DOMAIN members) \cup {k} |-> IF q = k THEN m ELSE members[q]]

\* Env::set_func: the entry becomes the function, occupied or vacant.
set_func(members, k, f) == Insert(members, k, MFn(f))

\* Env::get_func.
get_func(members, q) ==
    IF q \in DOMAIN members /\ members[q][1] = "Fn" THEN <<members[q][2]>> ELSE <<>>

\* Env::set_var: and_modify overwrites the value of a Var entry and leaves
\* an Fn entry as it is; or_insert fills a vacant entry only.
set_var(members, k, v) ==
    IF k \in DOMAIN members
    THEN IF members[k][1] = "Var" THEN Insert(members, k, MVar(v)) ELSE members
    ELSE Insert(members, k, MVar(v))

\* Env::get_var.
get_var(members, q) ==
    IF q \in DOMAIN members /\ members[q][1] = "Var" THEN <<members[q][2]>> ELSE <<>>

\* The printable ASCII characters in the order of their codes, from 32
\* (the quote, the backslash and the backtick under a name).
AsciiOrder ==
   <<" ", "!", "<quote>", "#", "$", "%", "&", "'", "(", ")", "*", "+",
      ",", "-", ".", "/", "0", "1", "2", "3", "4", "5", "6", "7",
      "8", "9", ":", ";", "<", "=", ">", "?", "@", "A", "B", "C",
      "D", "E", "F", "G", "H", "I", "J", "K", "L", "M", "N", "O",
      "P", "Q", "R", "S", "T", "U", "V", "W", "X", "Y", "Z", "[",
      "<backslash>", "]", "^", "_", "<backtick>", "a", "b", "c", "d", "e", "f", "g",
      "h", "i", "j", "k", "l", "m", "n", "o", "p", "q", "r", "s",
      "t", "u", "v", "w", "x", "y", "z", "{", "|", "}", "~" >>

\* The value of a byte of a text: an ASCII character's code, and 0xC3 0xA9
\* for the two bytes of U+00E9.
ByteValue(b) ==
    IF b = CONT THEN 169
    ELSE IF b \in NonAscii THEN 195
    ELSE 31 + (CHOOSE i \in 1..Len(AsciiOrder) : AsciiOrder[i] = b)

\* Ord for str: byte by byte, a proper prefix first.
RECURSIVE LessBytes(_, _)
LessBytes(a, b) ==
    IF b = <<>> THEN FALSE
    ELSE IF a = <<>> THEN TRUE
    ELSE IF ByteValue(Head(a)) # ByteValue(Head(b))
    THEN ByteValue(Head(a)) < ByteValue(Head(b))
    ELSE LessBytes(Tail(a), Tail(b))

KeyLess(k1, k2) == LessBytes(Bytes(k1), Bytes(k2))

\* The keys of a BTreeMap in the order its iterators yield them.
RECURSIVE SortedKeys(_)
SortedKeys(keys) ==
    IF keys = {} THEN <<>>
    ELSE LET least == CHOOSE k \in keys : \A j \in keys : ~KeyLess(j, k)
         IN  <<least>> \o SortedKeys(keys \ {least})

\* What Env::search yields when the iterator is run to its end.
SearchResult(panic, entries) == [panic |-> panic, entries |-> entries]

\* Variants of the predicate of take_while: one that also takes the keys
\* that come after the prefix's run, and the predicate itself, which
\* slices k[0..q.len()] and panics when q.len() is inside a character of k.
RECURSIVE TakeWhilePrefix(_, _, _, _, _)
TakeWhilePrefix(members, keys, i, q, acc) ==
    IF i > Len(keys) THEN SearchResult(FALSE, acc)
    ELSE LET kb == Bytes(keys[i])
             qb == Bytes(q)
         IN  IF Len(kb) < Len(qb) THEN SearchResult(FALSE, acc)
             ELSE IF Len(qb) < Len(kb) /\ kb[Len(qb) + 1] = CONT
             THEN SearchResult(TRUE, acc)
             ELSE IF SubSeq(kb, 1, Len(qb)) # qb THEN SearchResult(FALSE, acc)
             ELSE TakeWhilePrefix(members, keys, i + 1, q,
                                  Append(acc, <<keys[i], members[keys[i]]>>))

\* members.range(q..): the keys not below q, in order.
RangeFrom(members, q) == SortedKeys({k \in DOMAIN members : ~KeyLess(k, q)})

\* A search that starts at the first key instead of at q.
search_from_start(members, q) ==
    TakeWhilePrefix(members, SortedKeys(DOMAIN members), 1, q, <<>>)

\* Env::search, collected.
search(members, q) == TakeWhilePrefix(members, RangeFrom(members, q), 1, q, <<>>)

-----------------------------------------------------------------------------
(* Built-in functions (interpreter/math.rs) *)

Name_sum == <<"s", "u", "m">>
Name_sqrt == <<"s", "q", "r", "t">>
Name_avg == <<"a", "v", "g">>
Name_min == <<"m", "i", "n">>
Name_max == <<"m", "a", "x">>
Name_sin == <<"s", "i", "n">>
Name_ans == <<"a", "n", "s">>

BuiltinNames == {Name_sum, Name_sqrt, Name_avg, Name_min, Name_max, Name_sin}

\* What a built-in returns: a value, or a panic.
BR(panic, val) == [panic |-> panic, val |-> val]

RECURSIVE sum(_)
sum(args) == IF args = <<>> THEN Num(0) ELSE Add(sum(SubSeq(args, 1, Len(args) - 1)), args[Len(args)])

\* Float::sqrt: exact for the squares of rationals, NaN below zero.
SqrtValue(v) ==
    IF IsOut(v) \/ v[1] < 0 THEN OUT
    ELSE LET rn == {r \in 0..100 : r * r = v[1]}
             rd == {r \in 1..100 : r * r = v[2]}
         IN  IF rn = {} \/ rd = {} THEN OUT
             ELSE Norm(CHOOSE r \in rn : TRUE, CHOOSE r \in rd : TRUE)

\* Float::sin: exact at zero only.
SinValue(v) == IF v = Num(0) THEN Num(0) ELSE OUT

\* args[0]: indexing an empty slice panics.
sqrt(args) == IF args = <<>> THEN BR(TRUE, OUT) ELSE BR(FALSE, SqrtValue(args[1]))
sin(args) == IF args = <<>> THEN BR(TRUE, OUT) ELSE BR(FALSE, SinValue(args[1]))

\* sum(args) / args.len(): 0 / 0 is NaN for an empty list.
avg(args) == BR(FALSE, Div(sum(args), Num(Len(args))))

\* Iterator::max_by_key(..).unwrap() and min_by_key(..).unwrap(): None for
\* an empty list, and unwrap panics. An untracked argument makes the result
\* untracked.
max(args) ==
    IF args = <<>> THEN BR(TRUE, OUT)
    ELSE IF \E i \in 1..Len(args) : IsOut(args[i]) THEN BR(FALSE, OUT)
    ELSE BR(FALSE, CHOOSE v \in {args[i] : i \in 1..Len(args)} :
                       \A i \in 1..Len(args) : ~Less(v, args[i]))
min(args) ==
    IF args = <<>> THEN BR(TRUE, OUT)
    ELSE IF \E i \in 1..Len(args) : IsOut(args[i]) THEN BR(FALSE, OUT)
    ELSE BR(FALSE, CHOOSE v \in {args[i] : i \in 1..Len(args)} :
                       \A i \in 1..Len(args) : ~Less(args[i], v))

\* The call through a BuiltinFn's function pointer.
CallBuiltin(name, args) ==
    CASE name = Name_sum -> BR(FALSE, sum(args))
      [] name = Name_sqrt -> sqrt(args)
      [] name = Name_avg -> avg(args)
      [] name = Name_min -> min(args)
      [] name = Name_max -> max(args)
      [] name = Name_sin -> sin(args)

\* math::insert_funcs.
insert_funcs(members) ==
    [q \in (DOMAIN members) \cup BuiltinNames |->
        IF q \in BuiltinNames THEN MFn(BuiltinFn(q)) ELSE members[q]]

-----------------------------------------------------------------------------
(* Interpreter (interpreter.rs) *)

\* What a visit returns: st is "ok" (val), "err" (msg), "panic" (the process
\* aborts) or "overflow" (unbounded recursion exhausts the call stack);
\* scope is Interpreter.scope as the visit leaves it.
ER(st, val, msg, sc) == [st |-> st, val |-> val, msg |-> msg, scope |-> sc]

\* A collect in which the first of two equal keys wins.
ZipScopeFirst(params, args) ==
    LET n == IF Len(params) < Len(args) THEN Len(params) ELSE Len(args)
    IN  [k \in {params[i] : i \in 1..n} |->
            args[CHOOSE i \in 1..n : params[i] = k /\ \A j \in 1..(i - 1) : params[j] # k]]

\* f_args.into_iter().zip(args).collect(): a later duplicate key wins.
ZipScope(params, args) ==
    LET n == IF Len(params) < Len(args) THEN Len(params) ELSE Len(args)
    IN  [k \in {params[i] : i \in 1..n} |->
            args[CHOOSE i \in 1..n : params[i] = k /\ \A j \in (i + 1)..n : params[j] # k]]

\* A resolution that asks the Environment before the call-local scope.
visit_var_env_first(name, members, sc, last) ==
    IF name = Name_ans THEN ER("ok", last, <<>>, sc)
    ELSE IF get_var(members, name) # <<>> THEN ER("ok", get_var(members, name)[1], <<>>, sc)
    ELSE IF sc # <<>> /\ name \in DOMAIN sc[1] THEN ER("ok", sc[1][name], <<>>, sc)
    ELSE ER("err", OUT, <<"Undeclared variable", name>>, sc)

\* A resolution with no reserved name: ans is looked up like any other name,
\* and falls back to the register when nothing binds it.
visit_var_ans_unreserved(name, members, sc, last) ==
    IF sc # <<>> /\ name \in DOMAIN sc[1] THEN ER("ok", sc[1][name], <<>>, sc)
    ELSE IF get_var(members, name) # <<>> THEN ER("ok", get_var(members, name)[1], <<>>, sc)
    ELSE IF name = Name_ans THEN ER("ok", last, <<>>, sc)
    ELSE ER("err", OUT, <<"Undeclared variable", name>>, sc)

\* Interpreter::visit_var.
visit_var(name, members, sc, last) ==
    IF name = Name_ans THEN ER("ok", last, <<>>, sc)
    ELSE IF sc # <<>> /\ name \in DOMAIN sc[1] THEN ER("ok", sc[1][name], <<>>, sc)
    ELSE IF get_var(members, name) # <<>> THEN ER("ok", get_var(members, name)[1], <<>>, sc)
    ELSE ER("err", OUT, <<"Undeclared variable", name>>, sc)

\* The operator match of Interpreter::visit_binary_expr; <<>> for the
\* panic on any other token.
BinaryOp(kind, lhs, rhs) ==
    CASE kind = "Plus" -> <<Add(lhs, rhs)>>
      [] kind = "Minus" -> <<Sub(lhs, rhs)>>
      [] kind = "Slash" -> <<Div(lhs, rhs)>>
      [] kind = "Star" -> <<Mul(lhs, rhs)>>
      [] kind = "Exp" -> <<Pow(lhs, rhs)>>
      [] OTHER -> <<>>

\* The operator match of Interpreter::visit_unary_expr.
UnaryOp(kind, rhs) ==
    CASE kind = "Minus" -> <<Neg(rhs)>>
      [] kind = "Plus" -> <<rhs>>
      [] OTHER -> <<>>

RECURSIVE visit_expr(_, _, _, _, _), visit_args(_, _, _, _, _, _)

\* As in the parser, a visit that goes on with the result of another visit
\* is written as the call and what follows it.

\* Interpreter::visit_binary_expr: the operator applied to both values.
BinaryApply(kind, l, r) ==
    IF r.st # "ok" THEN r
    ELSE IF BinaryOp(kind, l.val, r.val) = <<>> THEN ER("panic", OUT, <<>>, r.scope)
    ELSE ER("ok", BinaryOp(kind, l.val, r.val)[1], <<>>, r.scope)

\* Interpreter::visit_binary_expr: the right operand, after the left.
BinaryRhs(e, members, last, stack, l) ==
    IF l.st # "ok" THEN l
    ELSE BinaryApply(e[3], l, visit_expr(e[4], members, l.scope, last, stack))

\* Interpreter::visit_binary_expr.
visit_binary_expr(e, members, sc, last, stack) ==
    BinaryRhs(e, members, last, stack, visit_expr(e[2], members, sc, last, stack))

UnaryApply(kind, r) ==
    IF r.st # "ok" THEN r
    ELSE IF UnaryOp(kind, r.val) = <<>> THEN ER("panic", OUT, <<>>, r.scope)
    ELSE ER("ok", UnaryOp(kind, r.val)[1], <<>>, r.scope)

\* Interpreter::visit_unary_expr.
visit_unary_expr(e, members, sc, last, stack) ==
    UnaryApply(e[2], visit_expr(e[3], members, sc, last, stack))

\* A return that clears the scope only when the body gave a value.
CallReturnOnOk(r) ==
    IF r.st # "ok" THEN r ELSE ER(r.st, r.val, r.msg, <<>>)

\* Interpreter::visit_func_call, the UserFn arm: self.scope = None once the
\* body has been visited, whatever it returned.
CallReturn(r) ==
    IF r.st \in {"panic", "overflow"} THEN r ELSE ER(r.st, r.val, r.msg, <<>>)

\* A call that gives the caller's scope back when the body returns, as a
\* stack of scopes would.
CallApplyRestoring(e, members, last, stack, as, f) ==
    IF as.st # "ok" THEN as
    ELSE IF f = <<>> THEN ER("err", OUT, <<"No function named", e[2]>>, as.scope)
    ELSE IF f[1][1] = "BuiltinFn"
    THEN IF CallBuiltin(f[1][2], as.val).panic THEN ER("panic", OUT, <<>>, as.scope)
         ELSE ER("ok", CallBuiltin(f[1][2], as.val).val, <<>>, as.scope)
    ELSE IF Len(f[1][2]) # Len(e[3])
    THEN ER("err", OUT, <<"Function takes args", e[2], Len(f[1][2])>>, as.scope)
    ELSE IF e[2] \in stack
    THEN ER("overflow", OUT, <<>>, <<ZipScope(f[1][2], as.val)>>)
    ELSE [visit_expr(f[1][3], members, <<ZipScope(f[1][2], as.val)>>,
                     last, stack \cup {e[2]}) EXCEPT !.scope = as.scope]

\* Interpreter::visit_func_call, once the arguments have been evaluated.
\* stack is the set of user-defined functions whose bodies are being
\* evaluated: evaluation has no branch that depends on a value, so a
\* function entered again from its own body is entered again without end.
CallApply(e, members, last, stack, as, f) ==
    IF as.st # "ok" THEN as
    ELSE IF f = <<>> THEN ER("err", OUT, <<"No function named", e[2]>>, as.scope)
    ELSE IF f[1][1] = "BuiltinFn"
    THEN IF CallBuiltin(f[1][2], as.val).panic THEN ER("panic", OUT, <<>>, as.scope)
         ELSE ER("ok", CallBuiltin(f[1][2], as.val).val, <<>>, as.scope)
    ELSE IF Len(f[1][2]) # Len(e[3])
    THEN ER("err", OUT, <<"Function takes args", e[2], Len(f[1][2])>>, as.scope)
    ELSE IF e[2] \in stack
    THEN ER("overflow", OUT, <<>>, <<ZipScope(f[1][2], as.val)>>)
    ELSE CallReturn(visit_expr(f[1][3], members, <<ZipScope(f[1][2], as.val)>>,
                               last, stack \cup {e[2]}))

\* Interpreter::visit_func_call.
visit_func_call(e, members, sc, last, stack) ==
    CallApply(e, members, last, stack,
              visit_args(e[3], <<>>, members, sc, last, stack),
              get_func(members, e[2]))

ArgsNext(arguments, acc, members, last, stack, a) ==
    IF a.st # "ok" THEN a
    ELSE visit_args(arguments, Append(acc, a.val), members, a.scope, last, stack)

\* The argument loop of Interpreter::visit_func_call: left to right, each
\* in the scope the one before it left, stopping at the first failure.
\* val holds the values evaluated so far.
visit_args(arguments, acc, members, sc, last, stack) ==
    IF Len(acc) = Len(arguments) THEN ER("ok", acc, <<>>, sc)
    ELSE ArgsNext(arguments, acc, members, last, stack,
                  visit_expr(arguments[Len(acc) + 1], members, sc, last, stack))

\* Visitor::visit_expr.
visit_expr(e, members, sc, last, stack) ==
    CASE e[1] = "Literal" -> ER("ok", e[2], <<>>, sc)
      [] e[1] = "Grouping" -> visit_expr(e[2], members, sc, last, stack)
      [] e[1] = "Var" -> visit_var(e[2], members, sc, last)
      [] e[1] = "Binary" -> visit_binary_expr(e, members, sc, last, stack)
      [] e[1] = "Unary" -> visit_unary_expr(e, members, sc, last, stack)
      [] e[1] = "FnCall" -> visit_func_call(e, members, sc, last, stack)

\* What Interpreter::visit_stmt_owned returns: the visit's result and
\* Interpreter.env.members as it leaves them.
SR(r, members) ==
    [st |-> r.st, val |-> r.val, msg |-> r.msg, scope |-> r.scope, env |-> members]

\* A VarAssign arm that writes whatever save_assignments says.
AssignVarAlways(name, members, save, r) ==
    IF r.st # "ok" THEN SR(r, members)
    ELSE SR(r, set_var(members, name, r.val))

\* A VarAssign arm that writes before it looks at the value's result.
AssignVarEager(name, members, save, r) ==
    SR(r, IF save THEN set_var(members, name, r.val) ELSE members)

\* Interpreter::visit_stmt_owned, the VarAssign arm after the value's visit.
AssignVar(name, members, save, r) ==
    IF r.st # "ok" THEN SR(r, members)
    ELSE SR(r, IF save THEN set_var(members, name, r.val) ELSE members)

\* A visit whose FnAssign arm evaluates the body before it stores it.
visit_stmt_owned_body_first(s, members, sc, last, save) ==
    CASE s[1] = "VarAssign" ->
            AssignVar(s[2], members, save, visit_expr(s[3], members, sc, last, {}))
      [] s[1] = "FnAssign" ->
            AssignVar(s[2], members, FALSE, visit_expr(s[4], members, sc, last, {}))
      [] s[1] = "Expr" -> SR(visit_expr(s[2], members, sc, last, {}), members)

\* Interpreter::visit_stmt_owned.
visit_stmt_owned(s, members, sc, last, save) ==
    CASE s[1] = "VarAssign" ->
            AssignVar(s[2], members, save, visit_expr(s[3], members, sc, last, {}))
      [] s[1] = "FnAssign" ->
            SR(ER("ok", Num(1), <<>>, sc),
               IF save THEN set_func(members, s[2], UserFn(s[3], s[4])) ELSE members)
      [] s[1] = "Expr" -> SR(visit_expr(s[2], members, sc, last, {}), members)

\* Interpreter::new: the built-ins, no scope, last_ans zero.
InterpreterEnv == insert_funcs(EnvNew)

-----------------------------------------------------------------------------
(* The pipeline: scan, parse and evaluate applied to one text *)

\* All texts of at most n characters over an alphabet.
RECURSIVE TextsUpTo(_, _)
TextsUpTo(alphabet, n) ==
    IF n = 0 THEN {<<>>}
    ELSE LET shorter == TextsUpTo(alphabet, n - 1)
         IN  shorter \cup {Append(t, c) : t \in shorter, c \in alphabet}

PipeAlphabet == {"2", "x", "+", "-", "*", "^", "(", ")", "="}
ScanAlphabet == {"1", ".", "a", " ", "+", "?", "U+00E9"}

\* The texts the specification's own sentences and tests name, and a few
\* more with a call, a comma, a division and an unknown character.
ExampleTexts ==
    { <<"2", "^", "3", "^", "2">>,
      <<"2", "+", "3", "*", "4">>,
      <<"(", "2", "+", "3", ")", "*", "4">>,
      <<"-", "2", "^", "2">>,
      <<"2", "*", "-", "3">>,
      <<"2", "^", "-", "3", "^", "2">>,
      <<"8", "-", "3", "-", "2">>,
      <<"8", "/", "4", "/", "2">>,
      <<"m", "a", "x", "(", "2", ",", "3", ")">>,
      <<"s", "q", "r", "t", "(", ")">>,
      <<"f", "(", "x", ",", "y", ")", "=", "x", "^", "y", "^", "2">>,
      <<"f", "(", "2", ")", "=", "x">>,
      <<"y", "+", "1">>,
      <<"2", " ", "?", " ", "3">>,
      <<"1", ".", "5", "+", "2", ".">> }

\* The texts a o1 b o2 c, -a o b and a o -b over every pair of operators.
OperatorChars == {"+", "-", "*", "/", "^"}
Operands == {"2", "3", "x"}
OperatorTexts ==
    {<<"2", o1, "3", o2, "4">> : o1 \in OperatorChars, o2 \in OperatorChars}
        \cup {<<"-", "2", o, "3">> : o \in OperatorChars}
        \cup {<<"2", o, "-", "3">> : o \in OperatorChars}
        \cup {<<a, "^", b, "^", c>> : a \in Operands, b \in Operands, c \in Operands}

PipeTexts ==
    TextsUpTo(PipeAlphabet, MaxLen) \cup TextsUpTo(ScanAlphabet, MaxScanLen)
        \cup ExampleTexts \cup OperatorTexts

NoParse == PR("none", <<>>, 0, "")
NoResult == SR(ER("none", OUT, <<>>, <<>>), <<>>)
\* The last operation: its name, the value of save_assignments it ran
\* under, and the name and the argument it was given (<<>> when it has none).
Call(op, persist, name, arg) == [op |-> op, persist |-> persist, name |-> name, arg |-> arg]
NoCall == Call("new", TRUE, <<>>, <<>>)
Snapshot == [env |-> env, last_ans |-> last_ans, scope |-> scope]

\* App::default and Interpreter::new, with the text to process.
InitFrom(texts, at, members) ==
    /\ input \in texts
    /\ tokens = <<>>
    /\ parsed = NoParse
    /\ env = members
    /\ scope = <<>>
    /\ last_ans = Num(0)
    /\ save_assignments = TRUE
    /\ history = <<>>
    /\ pc = at
    /\ call = NoCall
    /\ res = NoResult
    /\ pre = [env |-> members, last_ans |-> Num(0), scope |-> <<>>]
    /\ cursor_position = 0
    /\ history_index = 0
    /\ events = 0
    /\ completion = <<>>

InitWith(texts, at) == InitFrom(texts, at, InterpreterEnv)

Init == InitWith(PipeTexts, "text")

\* Scanner::new(&input).scan_tokens(): a panic aborts the process.
Scan ==
    /\ pc = "text"
    /\ LET st == ScanTokens(input)
       IN  /\ tokens' = st.tokens
           /\ pc' = IF st.panic THEN "aborted" ELSE "scanned"
    /\ call' = Call("scan", save_assignments, <<>>, input)
    /\ UNCHANGED <<cursor_position, history_index, completion, events>>
    /\ UNCHANGED <<input, parsed, env, scope, last_ans, save_assignments, history,
                   res, pre>>

\* Parser::new(&tokens, &input).parse().
ParseTokens ==
    /\ pc = "scanned"
    /\ parsed' = Parse(tokens, input)
    /\ pc' = IF parsed'.st = "panic" THEN "aborted" ELSE "parsed"
    /\ call' = Call("parse", save_assignments, <<>>, input)
    /\ UNCHANGED <<cursor_position, history_index, completion, events>>
    /\ UNCHANGED <<input, tokens, env, scope, last_ans, save_assignments, history,
                   res, pre>>

\* interpreter.visit_stmt_owned(stmt) with save_assignments = persist.
Evaluate(persist) ==
    /\ pc = "parsed"
    /\ parsed.st = "ok"
    /\ LET r == visit_stmt_owned(parsed.node, env, scope, last_ans, persist)
       IN  /\ res' = r
           /\ env' = r.env
           /\ scope' = r.scope
           /\ pc' = IF r.st \in {"panic", "overflow"} THEN "aborted" ELSE "evaluated"
    /\ save_assignments' = persist
    /\ call' = Call("evaluate", persist, <<>>, input)
    /\ pre' = Snapshot
    /\ UNCHANGED <<cursor_position, history_index, completion, events>>
    /\ UNCHANGED <<input, tokens, parsed, last_ans, history>>

Next ==
    \/ Scan
    \/ ParseTokens
    \/ \E persist \in BOOLEAN : Evaluate(persist)

Spec == Init /\ [][Next]_vars

-----------------------------------------------------------------------------
(* The operations of Env and Interpreter applied one at a time *)

Name_x == <<"x">>
ApiNames == {Name_x, Name_sin, Name_ans}
ApiValues == {Num(1), Num(5)}
ApiFuncs == {UserFn(<<Name_x>>, Var(Name_x))}
ApiParams == {<<Name_x>>, <<Name_ans>>, <<Name_x, Name_ans>>}
ApiArgs == {<<>>, <<Num(4)>>, <<Num(4), Num(9)>>}

ApiInit == InitWith({<<>>}, "api")

\* env.set_var(k, v).
SetVar(k, v) ==
    /\ pc = "api"
    /\ env' = set_var(env, k, v)
    /\ call' = Call("set_var", save_assignments, k, v)
    /\ res' = NoResult
    /\ UNCHANGED <<cursor_position, history_index, completion, events>>
    /\ UNCHANGED <<input, tokens, parsed, scope, last_ans, save_assignments, history,
                   pc, pre>>

\* env.set_func(k, f).
SetFunc(k, f) ==
    /\ pc = "api"
    /\ env' = set_func(env, k, f)
    /\ call' = Call("set_func", save_assignments, k, f)
    /\ res' = NoResult
    /\ UNCHANGED <<cursor_position, history_index, completion, events>>
    /\ UNCHANGED <<input, tokens, parsed, scope, last_ans, save_assignments, history,
                   pc, pre>>

\* interpreter.last_ans = res.clone(), as the host does after a commit.
StoreAns(v) ==
    /\ pc = "api"
    /\ last_ans' = v
    /\ call' = Call("store_ans", save_assignments, <<>>, v)
    /\ res' = NoResult
    /\ UNCHANGED <<cursor_position, history_index, completion, events>>
    /\ UNCHANGED <<input, tokens, parsed, env, scope, save_assignments, history, pc,
                   pre>>

\* self.scope = Some(f_args.into_iter().zip(args).collect()): the step of
\* visit_func_call that installs the call's scope.
InstallScope(params, args) ==
    /\ pc = "api"
    /\ scope' = <<ZipScope(params, args)>>
    /\ call' = Call("install_scope", save_assignments, params, args)
    /\ res' = NoResult
    /\ UNCHANGED <<cursor_position, history_index, completion, events>>
    /\ UNCHANGED <<input, tokens, parsed, env, last_ans, save_assignments, history, pc,
                   pre>>

\* self.scope = None: the step of visit_func_call that clears it.
ClearScope ==
    /\ pc = "api"
    /\ scope # <<>>
    /\ scope' = <<>>
    /\ call' = Call("clear_scope", save_assignments, <<>>, <<>>)
    /\ res' = NoResult
    /\ UNCHANGED <<cursor_position, history_index, completion, events>>
    /\ UNCHANGED <<input, tokens, parsed, env, last_ans, save_assignments, history, pc,
                   pre>>

\* interpreter.visit_var(&Var { name }).
VisitVar(name) ==
    /\ pc = "api"
    /\ res' = SR(visit_var(name, env, scope, last_ans), env)
    /\ call' = Call("visit_var", save_assignments, name, <<>>)
    /\ UNCHANGED <<cursor_position, history_index, completion, events>>
    /\ UNCHANGED <<input, tokens, parsed, env, scope, last_ans, save_assignments,
                   history, pc, pre>>

\* The argument expressions of a call whose arguments are literals.
LiteralArgs(args) == [i \in 1..Len(args) |-> Literal(args[i])]

\* interpreter.visit_stmt_owned(Stmt::Expr(Expr::FnCall(..))) on a call of a
\* built-in with literal arguments. A panic aborts the process.
VisitBuiltinCall(name, args) ==
    /\ pc = "api"
    /\ \E r \in {visit_stmt_owned(ExprStmt(FnCall(name, LiteralArgs(args))),
                                  env, scope, last_ans, save_assignments)} :
          /\ res' = r
          /\ pc' = IF r.st \in {"panic", "overflow"} THEN "aborted" ELSE "api"
    /\ call' = Call("call_builtin", save_assignments, name, args)
    /\ UNCHANGED <<cursor_position, history_index, completion, events>>
    /\ UNCHANGED <<input, tokens, parsed, env, scope, last_ans, save_assignments,
                   history, pre>>

ApiNext ==
    \/ \E k \in ApiNames, v \in ApiValues : SetVar(k, v)
    \/ \E k \in ApiNames, f \in ApiFuncs : SetFunc(k, f)
    \/ \E v \in ApiValues : StoreAns(v)
    \/ \E params \in ApiParams :
          \E args \in [1..Len(params) -> ApiValues] : InstallScope(params, args)
    \/ ClearScope
    \/ \E name \in ApiNames \cup {<<"y">>} : VisitVar(name)
    \/ \E name \in BuiltinNames, args \in ApiArgs : VisitBuiltinCall(name, args)

SpecApi == ApiInit /\ [][ApiNext]_vars

-----------------------------------------------------------------------------
(* Number display (util.rs) *)

\* str.trim_end_matches('0').
RECURSIVE TrimEndZeros(_)
TrimEndZeros(t) ==
    IF t # <<>> /\ t[Len(t)] = "0" THEN TrimEndZeros(SubSeq(t, 1, Len(t) - 1)) ELSE t

\* insert_delimeter: split_at(i) panics when i is beyond the string.
insert_delimeter(str, i) ==
    IF i > Len(str) THEN <<PANIC>>
    ELSE IF TrimEndZeros(SubSeq(str, i + 1, Len(str))) = <<>> THEN SubSeq(str, 1, i)
    ELSE SubSeq(str, 1, i) \o <<".">> \o TrimEndZeros(SubSeq(str, i + 1, Len(str)))

\* The decimal digits of a natural number.
RECURSIVE NatToText(_)
NatToText(n) ==
    IF n < 10 THEN <<CHOOSE c \in Digits : DigitValue(c) = n>>
    ELSE Append(NatToText(n \div 10), CHOOSE c \in Digits : DigitValue(c) = n % 10)

\* format!("{}", n) of an i32.
IntToText(n) == IF n < 0 THEN <<"-">> \o NatToText(-n) ELSE NatToText(n)

\* "0".repeat(k).
Zeros(k) == [i \in 1..k |-> "0"]

\* A display that keeps the trailing zeros of a number below 1.
disp_num_untrimmed(sign, str, exp, digits) ==
    IF exp = <<>> THEN str
    ELSE (IF sign THEN <<"-">> ELSE <<>>) \o
         (IF 0 < exp[1] /\ exp[1] < digits THEN insert_delimeter(str, exp[1])
          ELSE IF exp[1] = digits THEN str
          ELSE IF -digits < exp[1] /\ exp[1] <= 0
          THEN <<"0", ".">> \o Zeros(Abs(exp[1])) \o str
          ELSE insert_delimeter(str, 1) \o <<"e">> \o IntToText(exp[1] - 1))

\* disp_num, from the (sign, digits, exponent) that to_sign_string_exp
\* returned for the number; exp is <<>> where it returned None.
disp_num(sign, str, exp, digits) ==
    IF exp = <<>> THEN str
    ELSE (IF sign THEN <<"-">> ELSE <<>>) \o
         (IF 0 < exp[1] /\ exp[1] < digits THEN insert_delimeter(str, exp[1])
          ELSE IF exp[1] = digits THEN str
          ELSE IF -digits < exp[1] /\ exp[1] <= 0
          THEN <<"0", ".">> \o Zeros(Abs(exp[1])) \o TrimEndZeros(str)
          ELSE insert_delimeter(str, 1) \o <<"e">> \o IntToText(exp[1] - 1))

-----------------------------------------------------------------------------
(* disp_num applied to digit strings *)

MaxDigits == 3
MaxExp == 5
FormatAlphabet == {"0", "1", "2"}

\* The digit strings of non-zero numbers: the first digit is not 0.
FormatDigitStrings ==
    {d \in TextsUpTo(FormatAlphabet, MaxDigits) : d # <<>> /\ d[1] # "0"}
        \cup {<<"1", "2", "3", "4">>}

\* disp_num on what to_sign_string_exp(10, Some(Len(str))) returned.
Format(sign, str, exp) ==
    /\ pc = "api"
    /\ res' = SR(ER("ok", disp_num(sign, str, exp, Len(str)), <<>>, scope), env)
    /\ call' = Call("disp_num", save_assignments, <<>>, <<sign, str, exp>>)
    /\ UNCHANGED <<cursor_position, history_index, completion, events>>
    /\ UNCHANGED <<input, tokens, parsed, env, scope, last_ans, save_assignments,
                   history, pc, pre>>

FormatNext ==
    \/ \E sign \in BOOLEAN, str \in FormatDigitStrings, e \in (-MaxExp)..MaxExp :
          Format(sign, str, <<e>>)
    \/ Format(FALSE, <<"0">>, <<>>)

SpecFormat == ApiInit /\ [][FormatNext]_vars

-----------------------------------------------------------------------------
(* Env::search on environments built as tests::env builds them. The keys
   are identifiers, as every key the interpreter stores is. *)

MaxKeyLen == 1
SearchAlphabet == {"s", "q"}
SearchKeys ==
    (TextsUpTo(SearchAlphabet, MaxKeyLen) \ {<<>>})
        \cup {Name_sin, Name_sum, Name_sqrt, <<"s", "q">>}
SearchPrefixes ==
    TextsUpTo(SearchAlphabet, MaxKeyLen)
        \cup {Name_sqrt, <<"s", "q">>, <<"s", "i">>, <<"t">>, <<"U+00E9">>}

\* Env::new.
SearchInit == InitFrom({<<>>}, "api", EnvNew)

\* env.search(q) run to its end. A panic aborts the process.
Search(q) ==
    /\ pc = "api"
    /\ \E r \in {search(env, q)} :
          /\ res' = SR(ER(IF r.panic THEN "panic" ELSE "ok", r.entries, <<>>, scope), env)
          /\ pc' = IF r.panic THEN "aborted" ELSE "api"
    /\ call' = Call("search", save_assignments, <<>>, q)
    /\ UNCHANGED <<cursor_position, history_index, completion, events>>
    /\ UNCHANGED <<input, tokens, parsed, env, scope, last_ans, save_assignments,
                   history, pre>>

SearchNext ==
    \/ \E k \in SearchKeys : SetVar(k, Num(1))
    \/ \E q \in SearchPrefixes : Search(q)

SpecSearch == SearchInit /\ [][SearchNext]_vars

-----------------------------------------------------------------------------
(* The host's loop (main.rs): preview on every pass, commit on Enter *)

\* The result of an evaluation that parse refused: and_then passes the
\* parser's error on.
ParseRefused(p, sc, members) ==
    SR(ER(IF p.st = "panic" THEN "panic" ELSE "err", OUT, <<p.msg>>, sc), members)

\* Parser::new(&app.tokens, &app.input).parse()
\*     .and_then(|e| interpreter.visit_stmt_owned(e)).
ParseAndVisit(p, members, sc, last, save) ==
    IF p.st # "ok" THEN ParseRefused(p, sc, members)
    ELSE visit_stmt_owned(p.node, members, sc, last, save)

Aborts(r) == r.st \in {"panic", "overflow"}

\* char::is_alphabetic and char::is_alphanumeric are Unicode tests: the
\* letter U+00E9 passes both.
Alphabetic == Letters \cup NonAscii
Alphanumeric == Letters \cup Digits \cup NonAscii

\* str::len: the number of bytes.
ByteLen(text) == Len(Bytes(text))

\* get_ident_range's walk back from byte e over alphanumeric characters:
\* the byte where it stops.
RECURSIVE RunStart(_, _)
RunStart(bytes, e) ==
    IF e > 0 /\ bytes[e] \in Alphanumeric \cup {CONT} THEN RunStart(bytes, e - 1) ELSE e

\* str::is_char_boundary: a byte index within the text that is not inside
\* a character.
IsCharBoundary(text, i) ==
    /\ i >= 0 /\ i <= ByteLen(text)
    /\ (i < ByteLen(text) => Bytes(text)[i + 1] # CONT)

\* get_ident_range: [panic, range], the range being the bytes from the
\* leftmost alphabetic character of the alphanumeric run that ends at
\* ident_end, to ident_end, or <<>> for None. The slice input[..ident_end]
\* panics when ident_end is beyond the text or inside a character.
get_ident_range(text, ident_end) ==
    IF ~IsCharBoundary(text, ident_end) THEN [panic |-> TRUE, range |-> <<>>]
    ELSE LET from == RunStart(Bytes(text), ident_end)
             letters == {i \in from..(ident_end - 1) : Bytes(text)[i + 1] \in Alphabetic}
         IN  [panic |-> FALSE,
              range |-> IF letters = {} THEN <<>>
                        ELSE <<[start |-> CHOOSE i \in letters : \A j \in letters : i <= j,
                                end |-> ident_end]>>]

\* get_ident_at_end: the identifier itself; <<>> for None.
get_ident_at_end(text) ==
    IF get_ident_range(text, ByteLen(text)).range = <<>> THEN <<>>
    ELSE <<Chars(SubSeq(Bytes(text),
                        get_ident_range(text, ByteLen(text)).range[1].start + 1,
                        ByteLen(text)))>>

\* Completion { index, completions }.
Completion(index, completions) == [index |-> index, completions |-> completions]

\* The names env.search(s) yields.
Names(found) == [i \in 1..Len(found.entries) |-> found.entries[i][1]]

\* input[..cursor_position]: <<PANIC>> when the cursor is beyond the text or
\* inside a character.
UpToCursor(text, cursor) ==
    IF ~IsCharBoundary(text, cursor) THEN <<PANIC>>
    ELSE Chars(SubSeq(Bytes(text), 1, cursor))

\* App::update_completions: [panic, completion], the new value of
\* App.completion. The slice of the input and Env::search can panic.
update_completions(text, cursor, members) ==
    IF UpToCursor(text, cursor) = <<PANIC>> THEN [panic |-> TRUE, completion |-> <<>>]
    ELSE IF get_ident_at_end(UpToCursor(text, cursor)) = <<>>
    THEN [panic |-> FALSE, completion |-> <<>>]
    ELSE IF search(members, get_ident_at_end(UpToCursor(text, cursor))[1]).panic
    THEN [panic |-> TRUE, completion |-> <<>>]
    ELSE IF search(members, get_ident_at_end(UpToCursor(text, cursor))[1]).entries = <<>>
    THEN [panic |-> FALSE, completion |-> <<>>]
    ELSE [panic |-> FALSE,
          completion |->
              <<Completion(0, Names(search(members,
                                           get_ident_at_end(UpToCursor(text, cursor))[1])))>>]

\* What a handler leaves in App.input and App.cursor_position, or that it
\* panicked.
Editor(text, cursor) == [panic |-> FALSE, input |-> text, cursor |-> cursor]
EditorPanic == [panic |-> TRUE, input |-> <<>>, cursor |-> 0]

\* App::clamp_cursor.
clamp_cursor(text, new_cursor_pos) ==
    IF new_cursor_pos < 0 THEN 0
    ELSE IF new_cursor_pos > ByteLen(text) THEN ByteLen(text)
    ELSE new_cursor_pos

\* handle_key_event with a completion list open, Enter or Tab: the
\* identifier that ends at the cursor is replaced by the selected name.
ApplyCompletion(text, cursor, comp) ==
    IF get_ident_range(text, cursor).panic THEN EditorPanic
    ELSE IF get_ident_range(text, cursor).range = <<>> THEN Editor(text, cursor)
    ELSE Editor(Chars(SubSeq(Bytes(text), 1, get_ident_range(text, cursor).range[1].start)
                      \o Bytes(comp.completions[comp.index + 1])
                      \o SubSeq(Bytes(text), cursor + 1, ByteLen(text))),
                get_ident_range(text, cursor).range[1].start
                   + ByteLen(comp.completions[comp.index + 1]))

\* The first match of handle_key_event for Enter and Tab.
Completed(text, cursor, comp) ==
    IF comp = <<>> THEN Editor(text, cursor) ELSE ApplyCompletion(text, cursor, comp[1])

\* String::insert at a byte index: <<PANIC>> when the index is beyond the
\* text or inside a character.
InsertAt(text, cursor, c) ==
    IF ~IsCharBoundary(text, cursor) THEN <<PANIC>>
    ELSE Chars(SubSeq(Bytes(text), 1, cursor) \o Bytes(<<c>>)
               \o SubSeq(Bytes(text), cursor + 1, ByteLen(text)))

\* App::enter_char.
enter_char(text, cursor, c) ==
    IF InsertAt(text, cursor, c) = <<PANIC>> THEN EditorPanic
    ELSE Editor(InsertAt(text, cursor, c), clamp_cursor(InsertAt(text, cursor, c), cursor + 1))

\* chars().take(cursor - 1) chained with chars().skip(cursor).
WithoutChar(text, cursor) ==
    SubSeq(text, 1, IF cursor - 1 < Len(text) THEN cursor - 1 ELSE Len(text))
        \o SubSeq(text, cursor + 1, Len(text))

\* App::delete_char.
delete_char(text, cursor) ==
    IF cursor = 0 THEN Editor(text, cursor)
    ELSE Editor(WithoutChar(text, cursor), clamp_cursor(WithoutChar(text, cursor), cursor - 1))

\* The top of run_app's loop: scan the input, then parse and evaluate it
\* with save_assignments = false, and set save_assignments = true again.
LoopTop ==
    /\ pc = "top"
    /\ \E st \in {ScanTokens(input)} :
          IF st.panic
          THEN /\ pc' = "aborted"
               /\ UNCHANGED <<tokens, parsed, env, scope, res>>
          ELSE \E p \in {Parse(st.tokens, input)} :
                 \E r \in {ParseAndVisit(p, env, scope, last_ans, FALSE)} :
                    /\ tokens' = st.tokens
                    /\ parsed' = p
                    /\ res' = r
                    /\ env' = r.env
                    /\ scope' = r.scope
                    /\ pc' = IF Aborts(r) THEN "aborted" ELSE "event"
    /\ save_assignments' = TRUE
    /\ call' = Call("preview", FALSE, <<>>, input)
    /\ pre' = Snapshot
    /\ UNCHANGED <<cursor_position, history_index, completion, events>>
    /\ UNCHANGED <<input, last_ans, history>>

\* handle_key_event, KeyCode::Enter: with a completion list open the
\* selected name first replaces the identifier at the cursor; then parse
\* App.tokens against App.input and evaluate; on Ok store the result in
\* last_ans, push the input to the history and clear it.
Enter ==
    /\ pc = "event"
    /\ \E ed \in {Completed(input, cursor_position, completion)} :
        IF ed.panic
        THEN /\ pc' = "aborted"
             /\ call' = Call("enter", save_assignments, <<>>, input)
             /\ UNCHANGED <<input, parsed, env, scope, last_ans, history, res,
                            cursor_position, history_index>>
        ELSE
        \E p \in {Parse(tokens, ed.input)} :
          \E r \in {ParseAndVisit(p, env, scope, last_ans, save_assignments)} :
             /\ parsed' = p
             /\ res' = r
             /\ env' = r.env
             /\ scope' = r.scope
             /\ pc' = IF Aborts(r) THEN "aborted" ELSE "top"
             /\ last_ans' = IF r.st = "ok" THEN r.val ELSE last_ans
             /\ history' = IF r.st = "ok" THEN Append(history, ed.input) ELSE history
             /\ history_index' = IF r.st = "ok" THEN Len(history) + 1 ELSE history_index
             /\ input' = IF r.st = "ok" THEN <<>> ELSE ed.input
             /\ cursor_position' = IF r.st = "ok" THEN 0 ELSE ed.cursor
             /\ call' = Call("enter", save_assignments, <<>>, ed.input)
    /\ pre' = Snapshot
    /\ UNCHANGED <<tokens, save_assignments, completion>>

\* The keys of handle_key_event.

\* The frame of a key that edits the input line only: the loop goes on,
\* or the program has panicked.
KeyFrame(panicked) ==
    /\ pc' = IF panicked THEN "aborted" ELSE "top"
    /\ call' = Call("key", save_assignments, <<>>, <<>>)
    /\ UNCHANGED <<tokens, parsed, env, scope, last_ans, save_assignments, history,
                   res, pre>>

\* The end of the handlers of Char and Backspace: the edited line ed, then
\* update_completions.
Edited(ed) ==
    IF ed.panic
    THEN /\ KeyFrame(TRUE)
         /\ UNCHANGED <<input, cursor_position, completion>>
    ELSE \E uc \in {update_completions(ed.input, ed.cursor, env)} :
            /\ input' = ed.input
            /\ cursor_position' = ed.cursor
            /\ completion' = IF uc.panic THEN completion ELSE uc.completion
            /\ KeyFrame(uc.panic)

\* KeyCode::Char(c): enter_char and update_completions when c is ASCII;
\* any other character falls to the arm that does nothing.
KeyChar(c) ==
    /\ pc = "event"
    /\ IF c \in NonAscii
       THEN /\ KeyFrame(FALSE)
            /\ UNCHANGED <<input, cursor_position, completion>>
       ELSE Edited(enter_char(input, cursor_position, c))
    /\ UNCHANGED history_index

\* KeyCode::Backspace: delete_char and update_completions.
KeyBackspace ==
    /\ pc = "event"
    /\ Edited(delete_char(input, cursor_position))
    /\ UNCHANGED history_index

\* KeyCode::Left: move_cursor_left.
KeyLeft ==
    /\ pc = "event"
    /\ cursor_position' = clamp_cursor(input, IF cursor_position = 0 THEN 0
                                              ELSE cursor_position - 1)
    /\ KeyFrame(FALSE)
    /\ UNCHANGED <<input, history_index, completion>>

\* KeyCode::Right: move_cursor_right.
KeyRight ==
    /\ pc = "event"
    /\ cursor_position' = clamp_cursor(input, cursor_position + 1)
    /\ KeyFrame(FALSE)
    /\ UNCHANGED <<input, history_index, completion>>

\* KeyCode::Up: the selection moves up in an open completion list;
\* otherwise decr_history.
KeyUp ==
    /\ pc = "event"
    /\ IF completion # <<>>
       THEN /\ completion' = <<Completion(IF completion[1].index = 0 THEN 0
                                          ELSE completion[1].index - 1,
                                          completion[1].completions)>>
            /\ UNCHANGED <<input, cursor_position, history_index>>
       ELSE IF history_index > 0
       THEN /\ history_index' = history_index - 1
            /\ input' = history[history_index]
            /\ cursor_position' = ByteLen(history[history_index])
            /\ UNCHANGED completion
       ELSE UNCHANGED <<input, cursor_position, history_index, completion>>
    /\ KeyFrame(FALSE)

\* KeyCode::Down: the selection moves down in an open completion list;
\* otherwise incr_history.
KeyDown ==
    /\ pc = "event"
    /\ IF completion # <<>>
       THEN /\ completion' =
                 <<Completion(IF completion[1].index + 1 < Len(completion[1].completions)
                              THEN completion[1].index + 1
                              ELSE Len(completion[1].completions) - 1,
                              completion[1].completions)>>
            /\ UNCHANGED <<input, cursor_position, history_index>>
       ELSE IF history_index < Len(history)
       THEN /\ history_index' = history_index + 1
            /\ input' = IF history_index + 2 <= Len(history)
                        THEN history[history_index + 2] ELSE <<>>
            /\ cursor_position' = IF history_index + 2 <= Len(history)
                                  THEN ByteLen(history[history_index + 2]) ELSE 0
            /\ UNCHANGED completion
       ELSE UNCHANGED <<input, cursor_position, history_index, completion>>
    /\ KeyFrame(FALSE)

\* KeyCode::Tab: the selected name of an open completion list replaces the
\* identifier at the cursor.
KeyTab ==
    /\ pc = "event"
    /\ \E ed \in {Completed(input, cursor_position, completion)} :
          /\ input' = IF ed.panic THEN input ELSE ed.input
          /\ cursor_position' = IF ed.panic THEN cursor_position ELSE ed.cursor
          /\ KeyFrame(ed.panic)
    /\ UNCHANGED <<history_index, completion>>

\* KeyCode::Esc: handle_key_event returns ControlFlow::Break and run_app
\* returns Ok(()); no key is read after it.
KeyEsc ==
    /\ pc = "event"
    /\ pc' = "ended"
    /\ call' = Call("key", save_assignments, <<>>, <<>>)
    /\ UNCHANGED <<input, tokens, parsed, env, scope, last_ans, save_assignments,
                   history, res, pre, cursor_position, history_index, completion>>

-----------------------------------------------------------------------------
(* Sessions: a user who types statements of a given set, key by key *)

\* The next character of the text t, typed at the end of the line.
TypeNext(t) ==
    /\ Len(input) < Len(t)
    /\ SubSeq(t, 1, Len(input)) = input
    /\ cursor_position = ByteLen(input)
    /\ KeyChar(t[Len(input) + 1])

\* run_app's loop with a user who types the texts character by character,
\* deletes with Backspace, presses Enter at any moment (at most n
\* statements are committed) and may leave with Esc.
SessionNext(texts, n) ==
    \/ LoopTop
    \/ \E t \in texts : (TypeNext(t) /\ UNCHANGED events)
    \/ (KeyBackspace /\ UNCHANGED events)
    \/ (Len(history) < n /\ Enter /\ UNCHANGED events)
    \/ (KeyEsc /\ UNCHANGED events)

SessionInit == InitWith({<<>>}, "top")

SessionTexts ==
    { <<"x", "=", "5">>,
      <<"x", "+", "1">>,
      <<"a", "n", "s", "=", "1">>,
      <<"a", "n", "s", "*", "2">>,
      <<"x", "=", "y", "+", "1">>,
      <<"s", "i", "n", "=", "5">>,
      <<"s", "i", "n", "+", "1">>,
      <<"f", "(", "x", ")", "=", "x">> }

SpecSession == SessionInit /\ [][SessionNext(SessionTexts, MaxSteps)]_vars

MaxCalls == 3

\* Texts that define user functions and call them.
Text_fdef == <<"f", "(", "x", ")", "=", "x", "^", "2">>
Text_f3 == <<"f", "(", "3", ")">>
Text_f12 == <<"f", "(", "1", ",", "2", ")">>
Text_fxx == <<"f", "(", "x", ",", "x", ")", "=", "x">>
Text_hdef == <<"h", "(", "x", ")", "=", "x", "+", "f", "(", "x", ")", "+", "x">>
Text_h3 == <<"h", "(", "3", ")">>
Text_x5 == <<"x", "=", "5">>

CallTexts == {Text_fdef, Text_f3, Text_f12, Text_fxx, Text_hdef, Text_h3, Text_x5}

SpecCalls == SessionInit /\ [][SessionNext(CallTexts, MaxCalls)]_vars

-----------------------------------------------------------------------------
(* The host's loop with every key (run_app) *)

MaxInput == 3
MaxKeyCommits == 2
MaxKeys == 9
KeyAlphabet == {"s", "=", "1", "U+00E9"}

\* One more key event read by run_app, up to MaxKeys of them.
KeyRead ==
    /\ events < MaxKeys
    /\ events' = events + 1

\* Lines are kept up to MaxInput characters (a completion can lengthen the
\* line without bound), up to MaxKeyCommits statements are committed and up
\* to MaxKeys keys are pressed.
KeysNext ==
    \/ LoopTop
    \/ \E c \in KeyAlphabet : (Len(input) < MaxInput /\ KeyChar(c) /\ KeyRead)
    \/ (KeyBackspace /\ KeyRead)
    \/ (KeyLeft /\ KeyRead)
    \/ (KeyRight /\ KeyRead)
    \/ (KeyUp /\ KeyRead)
    \/ (KeyDown /\ KeyRead)
    \/ (KeyTab /\ KeyRead /\ Len(input') <= MaxInput)
    \/ (Enter /\ KeyRead /\ Len(input') <= MaxInput /\ Len(history') <= MaxKeyCommits)
    \/ (KeyEsc /\ KeyRead)

SpecKeys == SessionInit /\ [][KeysNext]_vars

-----------------------------------------------------------------------------
(* Properties of the pipeline *)

\* The tree of a primary that is one token: a number or an identifier.
PrimOf(tok) ==
    IF tok.kind = "Number" THEN Literal(tok.literal[1])
    ELSE Var(Chars(SubSeq(Bytes(input), tok.start + 1, tok.end)))

IsPrimTok(tok) == tok.kind \in {"Number", "Indentifier"}

\* The tokens are a ^ b ^ c Eof, with a, b and c one-token primaries.
IsExpChain ==
    /\ Len(tokens) = 6
    /\ IsPrimTok(tokens[1]) /\ IsPrimTok(tokens[3]) /\ IsPrimTok(tokens[5])
    /\ tokens[2].kind = "Exp" /\ tokens[4].kind = "Exp"

Parsed == pc \in {"parsed", "evaluated"}
Text_2pow3pow2 == <<"2", "^", "3", "^", "2">>

\* C1 as stated: a^b^c parses as Binary(Binary(a,^,b),^,c), and "2^3^2"
\* evaluates to 64.
C1_LeftAssociative ==
    /\ (Parsed /\ IsExpChain) =>
          parsed.node = ExprStmt(Binary(Binary(PrimOf(tokens[1]), "Exp", PrimOf(tokens[3])),
                                        "Exp", PrimOf(tokens[5])))
    /\ (pc = "evaluated" /\ input = Text_2pow3pow2) => res.val = Num(64)

\* C1 amended: exponentiation is right-associative. For every input a^b^c
\* (a, b, c one-token primaries) parse returns Binary(a,^,Binary(b,^,c)):
\* "2^3^2" parses as 2^(3^2) and evaluates to 512.
C1_RightAssociative ==
    /\ (Parsed /\ IsExpChain) =>
          /\ parsed.st = "ok"
          /\ parsed.node = ExprStmt(Binary(PrimOf(tokens[1]), "Exp",
                                           Binary(PrimOf(tokens[3]), "Exp",
                                                  PrimOf(tokens[5]))))
    /\ (pc = "evaluated" /\ input = Text_2pow3pow2) => res.val = Num(512)

C1_Witness ==
    /\ pc = "evaluated" /\ input = Text_2pow3pow2 /\ IsExpChain
    /\ res.st = "ok" /\ res.val = Num(512)

\* The binding level of a tree: '+','-' 1, '*','/' 2, unary sign 3, '^' 4,
\* a primary 5.
Level(e) ==
    IF e[1] = "Binary"
    THEN (IF e[3] \in {"Plus", "Minus"} THEN 1
          ELSE IF e[3] \in {"Star", "Slash"} THEN 2 ELSE 4)
    ELSE IF e[1] = "Unary" THEN 3 ELSE 5

\* Every node's operands bind at least as tightly as its place allows:
\* a left operand of '+','-','*','/' at the node's own level or above
\* (folding to the left), a right operand strictly above it, the operand of
\* a sign at the sign's level or above, the base of '^' a primary and its
\* exponent a sign or tighter. A grouping or a call's argument starts anew.
RECURSIVE BindsInOrder(_)
BindsInOrder(e) ==
    CASE e[1] = "Binary" ->
            /\ BindsInOrder(e[2]) /\ BindsInOrder(e[4])
            /\ IF Level(e) = 4
               THEN Level(e[2]) = 5 /\ Level(e[4]) >= 3
               ELSE Level(e[2]) >= Level(e) /\ Level(e[4]) > Level(e)
      [] e[1] = "Unary" -> BindsInOrder(e[3]) /\ Level(e[3]) >= 3
      [] e[1] = "Grouping" -> BindsInOrder(e[2])
      [] e[1] = "FnCall" -> \A i \in 1..Len(e[3]) : BindsInOrder(e[3][i])
      [] OTHER -> TRUE

StmtBindsInOrder(s) ==
    CASE s[1] = "VarAssign" -> BindsInOrder(s[3])
      [] s[1] = "FnAssign" -> BindsInOrder(s[4])
      [] OTHER -> BindsInOrder(s[2])

OpKind(c) == CharKind(c)
LevelOfChar(c) == IF c \in {"+", "-"} THEN 1 ELSE IF c \in {"*", "/"} THEN 2 ELSE 4
L(n) == Literal(Num(n))

\* The tree the binding order gives "2 o1 3 o2 4": the second operator takes
\* 3 when it binds tighter than the first, otherwise the first folds first.
\* (Two '^' are left to C1.)
TreeOfPair(o1, o2) ==
    IF LevelOfChar(o2) > LevelOfChar(o1)
    THEN Binary(L(2), OpKind(o1), Binary(L(3), OpKind(o2), L(4)))
    ELSE Binary(Binary(L(2), OpKind(o1), L(3)), OpKind(o2), L(4))

\* C2: the tree parse builds respects the binding order '+','-' < '*','/' <
\* unary sign < '^', with '+','-','*','/' folding to the left: "2+3*4" is
\* 2+(3*4) = 14, "(2+3)*4" is 20, "-2^2" is -(2^2) = -4, "2*-3" is 2*(-3).
C2_BindingOrder ==
    /\ (Parsed /\ parsed.st = "ok") => StmtBindsInOrder(parsed.node)
    /\ \A o1 \in OperatorChars, o2 \in OperatorChars :
          (Parsed /\ input = <<"2", o1, "3", o2, "4">> /\ ~(o1 = "^" /\ o2 = "^")) =>
              parsed.node = ExprStmt(TreeOfPair(o1, o2))
    /\ \A o \in OperatorChars :
          /\ (Parsed /\ input = <<"-", "2", o, "3">>) =>
                parsed.node = ExprStmt(IF o = "^"
                                       THEN Unary("Minus", Binary(L(2), "Exp", L(3)))
                                       ELSE Binary(Unary("Minus", L(2)), OpKind(o), L(3)))
          /\ (Parsed /\ input = <<"2", o, "-", "3">>) =>
                parsed.node = ExprStmt(Binary(L(2), OpKind(o), Unary("Minus", L(3))))
    /\ (pc = "evaluated" /\ input = <<"2", "+", "3", "*", "4">>) => res.val = Num(14)
    /\ (pc = "evaluated" /\ input = <<"(", "2", "+", "3", ")", "*", "4">>) =>
          res.val = Num(20)
    /\ (pc = "evaluated" /\ input = <<"-", "2", "^", "2">>) => res.val = Num(-4)
    /\ (pc = "evaluated" /\ input = <<"2", "*", "-", "3">>) => res.val = Num(-6)
    /\ (pc = "evaluated" /\ input = <<"8", "-", "3", "-", "2">>) => res.val = Num(3)

C2_Witness ==
    /\ pc = "evaluated" /\ input = <<"2", "+", "3", "*", "4">>
    /\ parsed.node = ExprStmt(Binary(L(2), "Plus", Binary(L(3), "Star", L(4))))
    /\ res.val = Num(14)

\* The characters of the input that no scanner rule matches.
Unmatched(c) ==
    c \notin Digits \cup Letters \cup {" ", "(", ")", ",", ".", "-", "+", "/", "*", "=", "^"}

Count(seq, P(_)) == Cardinality({i \in 1..Len(seq) : P(seq[i])})
IsUnknownTok(t) == t.kind = "Unkown"

\* C8: for every input text scan never aborts: it returns tokens the last
\* of which is Eof and no earlier one is, every unmatched non-space
\* character having become an Unknown token.
C8_ScanNeverAborts ==
    call.op = "scan" =>
        /\ pc # "aborted"
        /\ tokens # <<>>
        /\ tokens[Len(tokens)].kind = "Eof"
        /\ \A i \in 1..(Len(tokens) - 1) : tokens[i].kind # "Eof"
        /\ Count(tokens, IsUnknownTok) = Count(input, Unmatched)

KnownParseErrors ==
    {"Expected expression", "Expect ')' after expression.",
     "Expect ')' after function call.", "Invalid function args",
     "Expected function or variable assignment", "Expected EOF"}

\* C10: for every token sequence scan produces, parse returns either a
\* statement, with the parser at Eof and every token before it consumed, or
\* an error message; it never aborts.
C10_ParseTotal ==
    call.op = "parse" =>
        /\ pc # "aborted"
        /\ parsed.st \in {"ok", "err"}
        /\ parsed.st = "ok" =>
              /\ parsed.cur + 1 = Len(tokens)
              /\ tokens[parsed.cur + 1].kind = "Eof"
              /\ parsed.node[1] \in {"VarAssign", "FnAssign", "Expr"}
        /\ parsed.st = "err" => parsed.msg \in KnownParseErrors

\* A statement followed by one more token is refused.
C10_Witness ==
    /\ call.op = "parse" /\ parsed.st = "err" /\ parsed.msg = "Expected EOF"
    /\ input = <<"2", ")">>

-----------------------------------------------------------------------------
(* Properties of the Environment and of variable resolution *)

\* C3 (as stated): after set_var(name, v), get_var(name) is v, and after
\* set_func(name, f), get_func(name) is f, whatever the name mapped to.
C3_WriteReplacesKind ==
    /\ call.op = "set_var" => get_var(env, call.name) = <<call.arg>>
    /\ call.op = "set_func" => get_func(env, call.name) = <<call.arg>>

Text_ans1 == <<"a", "n", "s", "=", "1">>
Text_xy1 == <<"x", "=", "y", "+", "1">>

\* What a lookup of ans yields in a state of the interpreter.
AnsLookup(members, sc, last) == visit_var(Name_ans, members, sc, last).val

\* C4 (as stated): after "ans=1" is committed, a lookup of ans yields what
\* it yielded before the statement.
C4_AnsUnchangedByAssignment ==
    (call.op = "enter" /\ call.arg = Text_ans1 /\ res.st = "ok")
        => AnsLookup(env, scope, last_ans) = AnsLookup(pre.env, pre.scope, pre.last_ans)

\* C4 (amended): after any statement is committed successfully, "ans=1"
\* included, a lookup of ans yields that statement's value (1 after
\* "ans=1"), whatever variable named ans the Environment holds.
C4_AnsIsLastCommit ==
    (call.op = "enter" /\ res.st = "ok")
        => /\ AnsLookup(env, scope, last_ans) = res.val
           /\ call.arg = Text_ans1 => AnsLookup(env, scope, last_ans) = Num(1)

\* "ans=1" then "x=5" are committed: the Environment's ans is 1 and a
\* lookup of ans yields 5.
C4_Witness ==
    /\ call.op = "enter" /\ res.st = "ok"
    /\ history = <<Text_ans1, Text_x5>>
    /\ get_var(env, Name_ans) = <<Num(1)>>
    /\ AnsLookup(env, scope, last_ans) = Num(5)

InScope(name) == scope # <<>> /\ name \in DOMAIN scope[1]
InEnvVar(name) == name \in DOMAIN env /\ env[name][1] = "Var"

\* C5: a reference to ans yields the register; otherwise the scope's
\* binding if a scope is active and binds the name; otherwise the
\* Environment's variable; otherwise the error naming the variable.
C5_ResolutionOrder ==
    call.op = "visit_var" =>
        /\ call.name = Name_ans => (res.st = "ok" /\ res.val = last_ans)
        /\ (call.name # Name_ans /\ InScope(call.name))
              => (res.st = "ok" /\ res.val = scope[1][call.name])
        /\ (call.name # Name_ans /\ ~InScope(call.name) /\ InEnvVar(call.name))
              => (res.st = "ok" /\ res.val = env[call.name][2])
        /\ (call.name # Name_ans /\ ~InScope(call.name) /\ ~InEnvVar(call.name))
              => (res.st = "err" /\ res.msg = <<"Undeclared variable", call.name>>)

\* x is bound in the scope and, to another value, in the Environment, and a
\* reference to x returned the scope's.
C5_Witness ==
    /\ call.op = "visit_var" /\ call.name = Name_x
    /\ InScope(Name_x) /\ InEnvVar(Name_x)
    /\ scope[1][Name_x] # env[Name_x][2]
    /\ res.val = scope[1][Name_x]

\* C6: the preview pass (save_assignments = false) leaves the Environment
\* as it was, whether the statement evaluates or fails.
C6_PreviewKeepsEnv ==
    call.op = "preview" => env = pre.env

\* "x=5" was previewed to 5 and x is still not in the Environment.
C6_Witness ==
    /\ call.op = "preview" /\ call.arg = Text_x5
    /\ res.st = "ok" /\ res.val = Num(5)
    /\ Name_x \notin DOMAIN env

\* C7: a committed statement whose evaluation returns an error leaves the
\* Environment as it was before the call.
C7_FailedKeepsEnv ==
    (call.op = "enter" /\ parsed.st = "ok" /\ res.st = "err") => env = pre.env

\* "x=y+1" failed on the undeclared y while x was 5, and x is still 5.
C7_Witness ==
    /\ call.op = "enter" /\ call.arg = Text_xy1
    /\ parsed.st = "ok" /\ res.st = "err"
    /\ get_var(env, Name_x) = <<Num(5)>>

EmptyArgsBuiltins == {Name_sqrt, Name_sin, Name_min, Name_max, Name_avg}

\* C9 (as stated): a call of the built-in sqrt, sin, min, max or avg with
\* no arguments returns an error.
C9_EmptyArgsReported ==
    (/\ call.op = "call_builtin" /\ call.arg = <<>>
     /\ call.name \in EmptyArgsBuiltins
     /\ get_func(env, call.name) = <<BuiltinFn(call.name)>>)
        => res.st = "err"

-----------------------------------------------------------------------------
(* Properties of user-defined functions *)

\* The last pass or commit evaluated a statement that is a call, of a
\* user-defined function, with literal arguments.
TopCall ==
    /\ call.op \in {"enter", "preview"}
    /\ parsed.st = "ok"
    /\ parsed.node[1] = "Expr"
    /\ parsed.node[2][1] = "FnCall"
CallName == parsed.node[2][2]
CallArgs == parsed.node[2][3]
Callee == get_func(pre.env, CallName)
UserCall ==
    /\ TopCall
    /\ Callee # <<>> /\ Callee[1][1] = "UserFn"
    /\ \A i \in 1..Len(CallArgs) : CallArgs[i][1] = "Literal"
Params == Callee[1][2]
Body == Callee[1][3]
ArgValues == [i \in 1..Len(CallArgs) |-> CallArgs[i][2]]

\* The error of a call with the wrong number of arguments, the scope left
\* as it was.
ArityError ==
    /\ res.st = "err"
    /\ res.msg = <<"Function takes args", CallName, Len(Params)>>
    /\ scope = pre.scope

\* The result is the body's value under the bindings sc.
BodyUnder(sc) ==
    /\ res.st = visit_expr(Body, pre.env, <<sc>>, pre.last_ans, {CallName}).st
    /\ res.val = visit_expr(Body, pre.env, <<sc>>, pre.last_ans, {CallName}).val

Bindings == [{Params[i] : i \in 1..Len(Params)} -> {ArgValues[i] : i \in 1..Len(ArgValues)}]

\* C11 (as stated): a call with the wrong number of arguments fails with
\* "Function '<name>' takes <n> args" and installs no scope; with the right
\* number the body is evaluated with every parameter bound to the argument
\* at its position.
C11_ArityAndPositions ==
    UserCall =>
        IF Len(Params) # Len(CallArgs) THEN ArityError
        ELSE \E sc \in Bindings :
                /\ \A i \in 1..Len(Params) : sc[Params[i]] = ArgValues[i]
                /\ BodyUnder(sc)

Body_xpow2 == Binary(Var(Name_x), "Exp", Literal(Num(2)))

\* C11 (amended): as stated for the wrong number of arguments; with the
\* right number the body is evaluated with every parameter name bound to
\* the argument at the last position where the name stands in the
\* parameter list (its own position when the names are distinct), and
\* after "f(x)=x^2" the call "f(3)" gives 9.
C11_ArityAndLastPosition ==
    UserCall =>
        /\ IF Len(Params) # Len(CallArgs) THEN ArityError
           ELSE \E sc \in Bindings :
                   /\ \A i \in 1..Len(Params) :
                         (\A j \in (i + 1)..Len(Params) : Params[j] # Params[i])
                            => sc[Params[i]] = ArgValues[i]
                   /\ BodyUnder(sc)
        /\ (call.arg = Text_f3 /\ Callee = <<UserFn(<<Name_x>>, Body_xpow2)>>)
              => (res.st = "ok" /\ res.val = Num(9))

\* "f(x,x)=x" was committed and "f(1,2)" then gave 2.
C11_Witness ==
    /\ UserCall /\ call.op = "enter" /\ call.arg = Text_f12
    /\ Params = <<Name_x, Name_x>>
    /\ res.st = "ok" /\ res.val = Num(2)

\* "f(x)=x^2" was committed and "f(1,2)" then failed on the count.
C11_WitnessArity ==
    /\ UserCall /\ call.op = "enter" /\ call.arg = Text_f12
    /\ Params = <<Name_x>>
    /\ ArityError

\* The last pass or commit evaluated a function assignment.
TopFnAssign ==
    /\ call.op \in {"enter", "preview"}
    /\ parsed.st = "ok"
    /\ parsed.node[1] = "FnAssign"

\* members with the user-defined function of the statement under its name.
WithFunction(members, stmt) ==
    [q \in (DOMAIN members) \cup {stmt[2]} |->
        IF q = stmt[2] THEN <<"Fn", <<"UserFn", stmt[3], stmt[4]>>>> ELSE members[q]]

\* C12: a function assignment returns 1 without evaluating the body, and
\* the Environment gains the function (parameter names, body) under the
\* name when save_assignments is true and stays as it was otherwise.
C12_FnAssign ==
    TopFnAssign =>
        /\ res.st = "ok" /\ res.val = Num(1)
        /\ call.persist => env = WithFunction(pre.env, parsed.node)
        /\ ~call.persist => env = pre.env

\* "h(x)=x+f(x)+x" was committed while no f was defined: h is stored.
C12_Witness ==
    /\ TopFnAssign /\ call.op = "enter" /\ call.arg = Text_hdef
    /\ get_func(env, <<"f">>) = <<>>
    /\ get_func(pre.env, <<"h">>) = <<>>
    /\ get_func(env, <<"h">>) = <<UserFn(<<Name_x>>, parsed.node[4])>>
    /\ res.val = Num(1)

-----------------------------------------------------------------------------
(* Properties of Env::search *)

\* The text k starts with the text q.
StartsWith(k, q) == Len(q) <= Len(k) /\ SubSeq(k, 1, Len(q)) = q

\* C13: search(prefix) returns the entries whose key starts with prefix,
\* each once, in ascending key order, for every set of keys and every
\* prefix.
C13_SearchPrefix ==
    call.op = "search" =>
        /\ res.st = "ok"
        /\ {res.val[i][1] : i \in 1..Len(res.val)}
              = {k \in DOMAIN env : StartsWith(k, call.arg)}
        /\ \A i \in 1..Len(res.val) : res.val[i][2] = env[res.val[i][1]]
        /\ \A i, j \in 1..Len(res.val) : i < j => KeyLess(res.val[i][1], res.val[j][1])

\* sin, sum and sqrt are registered and search("sq") returned sqrt alone.
C13_Witness ==
    /\ call.op = "search" /\ call.arg = <<"s", "q">>
    /\ {Name_sin, Name_sum, Name_sqrt} \subseteq DOMAIN env
    /\ <<"s", "q">> \notin DOMAIN env
    /\ res.st = "ok"
    /\ Len(res.val) = 1 /\ res.val[1][1] = Name_sqrt

-----------------------------------------------------------------------------
(* Properties of the number display *)

\* whole, then a point and frac without its trailing zeros, the point
\* dropped when nothing is left of frac.
Pointed(whole, frac) ==
    IF \A i \in 1..Len(frac) : frac[i] = "0" THEN whole
    ELSE whole \o <<".">> \o
         SubSeq(frac, 1, CHOOSE n \in 1..Len(frac) :
                            frac[n] # "0" /\ \A i \in (n + 1)..Len(frac) : frac[i] = "0")

\* The rendering the four cases select for digit string d and exponent e.
Rendering(d, e) ==
    LET digits == Len(d)
    IN  CASE 0 < e /\ e < digits -> Pointed(SubSeq(d, 1, e), SubSeq(d, e + 1, digits))
          [] e = digits -> d
          [] -digits < e /\ e <= 0 -> Pointed(<<"0">>, Zeros(-e) \o d)
          [] OTHER -> Pointed(<<d[1]>>, SubSeq(d, 2, digits)) \o <<"e">> \o IntToText(e - 1)

\* C14: for a non-zero number the display is the rendering its exponent
\* selects, with "-" in front for a negative sign; digits "12" with exp 5
\* give "1.2e4" and digits "1234" with exp -3 give "0.0001234".
C14_FourRenderings ==
    (call.op = "disp_num" /\ call.arg[3] # <<>>) =>
        /\ res.val = (IF call.arg[1] THEN <<"-">> ELSE <<>>)
                        \o Rendering(call.arg[2], call.arg[3][1])
        /\ call.arg = <<FALSE, <<"1", "2">>, <<5>>>>
              => res.val = <<"1", ".", "2", "e", "4">>
        /\ call.arg = <<FALSE, <<"1", "2", "3", "4">>, <<-3>>>>
              => res.val = <<"0", ".", "0", "0", "0", "1", "2", "3", "4">>

\* Digits "120" with exp 3 were displayed unchanged, as "-120".
C14_Witness ==
    /\ call.op = "disp_num"
    /\ call.arg = <<TRUE, <<"1", "2", "0">>, <<3>>>>
    /\ res.val = <<"-", "1", "2", "0">>

Name_f == <<"f">>
Name_h == <<"h">>

\* The body of "h(x)=x+f(x)+x": a reference to the parameter before the
\* inner call, one in the inner call's argument and one after the call.
Body_h ==
    Binary(Binary(Var(Name_x), "Plus", FnCall(Name_f, <<Var(Name_x)>>)), "Plus", Var(Name_x))

\* h(3) was evaluated with h defined by "h(x)=x+f(x)+x" and f by "f(x)=x^2".
NestedCall ==
    /\ UserCall /\ CallName = Name_h
    /\ Callee = <<UserFn(<<Name_x>>, Body_h)>>
    /\ get_func(pre.env, Name_f) = <<UserFn(<<Name_x>>, Body_xpow2)>>

\* C15: in the body of h, the reference to x before the inner call f(x) and
\* the one in its argument yield h's argument; the reference after the
\* inner call yields the Environment's variable x, or fails as undeclared.
C15_InnerCallDropsScope ==
    NestedCall =>
        IF get_var(pre.env, Name_x) = <<>>
        THEN res.st = "err" /\ res.msg = <<"Undeclared variable", Name_x>>
        ELSE /\ res.st = "ok"
             /\ res.val = Add(Add(ArgValues[1], Mul(ArgValues[1], ArgValues[1])),
                              get_var(pre.env, Name_x)[1])

\* With x = 5 in the Environment, the evaluation of h(3) at the top of
\* the loop gave 3 + 9 + 5.
C15_Witness ==
    /\ NestedCall /\ call.op = "preview"
    /\ get_var(pre.env, Name_x) = <<Num(5)>>
    /\ ArgValues = <<Num(3)>>
    /\ res.st = "ok" /\ res.val = Num(17)

\* C16: whenever an evaluation has returned, with a value or an error, no
\* call scope is active.
C16_ScopeCleared ==
    (call.op \in {"enter", "preview"} /\ pc # "aborted") => (scope = <<>> /\ res.scope = <<>>)

\* h(3) failed inside the body of h, on the argument count of f, and no
\* scope is left.
C16_Witness ==
    /\ UserCall /\ CallName = Name_h /\ Callee = <<UserFn(<<Name_x>>, Body_h)>>
    /\ res.st = "err" /\ res.msg = <<"Function takes args", Name_f, 2>>
    /\ scope = <<>>

-----------------------------------------------------------------------------
(* Properties of call nodes *)

\* Every call node of an expression has at least one argument.
RECURSIVE CallsHaveArguments(_)
CallsHaveArguments(e) ==
    CASE e[1] = "Literal" -> TRUE
      [] e[1] = "Var" -> TRUE
      [] e[1] = "Grouping" -> CallsHaveArguments(e[2])
      [] e[1] = "Unary" -> CallsHaveArguments(e[3])
      [] e[1] = "Binary" -> CallsHaveArguments(e[2]) /\ CallsHaveArguments(e[4])
      [] e[1] = "FnCall" ->
            /\ Len(e[3]) >= 1
            /\ \A i \in 1..Len(e[3]) : CallsHaveArguments(e[3][i])

StmtCallsHaveArguments(s) ==
    CASE s[1] = "VarAssign" -> CallsHaveArguments(s[3])
      [] s[1] = "FnAssign" -> Len(s[3]) >= 1 /\ CallsHaveArguments(s[4])
      [] s[1] = "Expr" -> CallsHaveArguments(s[2])

Text_sqrt_empty == <<"s", "q", "r", "t", "(", ")">>
Text_max23 == <<"m", "a", "x", "(", "2", ",", "3", ")">>

\* C17: a statement that parse returns has no call without arguments and
\* no function assignment without parameters ("sqrt()" is a parse error),
\* and no evaluation of a parsed statement aborts in a built-in.
C17_CallsHaveArguments ==
    /\ parsed.st = "ok" => StmtCallsHaveArguments(parsed.node)
    /\ (call.op \in {"parse", "evaluate"} /\ input = Text_sqrt_empty)
          => (parsed.st = "err" /\ parsed.msg = "Expected expression")
    /\ call.op = "evaluate" => res.st # "panic"

\* "max(2,3)" was parsed to a call with two arguments and evaluated to 3.
C17_Witness ==
    /\ call.op = "evaluate" /\ input = Text_max23
    /\ parsed.node[2][1] = "FnCall" /\ Len(parsed.node[2][3]) = 2
    /\ res.st = "ok" /\ res.val = Num(3)

-----------------------------------------------------------------------------
(* Properties of the key handlers *)

\* C18 (as stated): when Enter parses and evaluates, the tokens given to
\* the parser are the scan of the input as it stands then.
C18_TokensAreScanOfInput ==
    call.op = "enter" =>
        /\ ~ScanTokens(call.arg).panic
        /\ tokens = ScanTokens(call.arg).tokens

====
